---- MODULE Spec2Model ----
(***************************************************************************)
(* Panopticon progress tracking: the event stores (FileEventStore,         *)
(* InMemoryEventStore) and the ProgressManager / ProgressStorage status    *)
(* cascade, modelled as state machines.                                    *)
(*                                                                         *)
(* An asynchronous method is modelled by one action per stretch of code    *)
(* that runs between two awaits: a call slot's pc names the await the call *)
(* is suspended at.                                                        *)
(***************************************************************************)
EXTENDS Integers, Sequences, FiniteSets, TLC

\* ------------------------------------------------------------------ bounds
MaxLog == 3
MaxCalls == 2
MaxFaults == 1

\* ------------------------------------------------------------ event values
\* The JavaScript value undefined, as the value of a present key.
Undefined == "undefined"

\* An event as createEvent builds it: {id, type, timestamp, version, payload}.
\* A payload is a function from its keys to strings; a nested key such as
\* payload.project.projectId is the key "project.projectId".
createEvent(id, type, timestamp, payload) ==
    [id |-> id, type |-> type, timestamp |-> timestamp, version |-> 1,
     payload |-> payload]

\* createProjectCreatedEvent({projectId: "p1", ...})
E1 == createEvent("e1", "project_created", 1, ("project.projectId" :> "p1"))
\* createTaskUpdatedEvent("t1", {description: undefined})
E2 == createEvent("e2", "task_updated", 2,
                  ("taskId" :> "t1") @@ ("description" :> Undefined))
\* createTaskDependencyAddedEvent("t2", "t1")
E3 == createEvent("e3", "task_dependency_added", 3,
                  ("taskId" :> "t2") @@ ("dependsOnTaskId" :> "t1"))

EventPool == {E1, E2, E3}

\* The kinds of the EventType enum.
EventType ==
    {"project_created", "project_updated", "project_deleted",
     "project_status_changed",
     "milestone_created", "milestone_updated", "milestone_deleted",
     "milestone_status_changed", "milestone_added_to_project",
     "milestone_removed_from_project", "milestone_dependency_added",
     "milestone_dependency_removed",
     "task_created", "task_updated", "task_deleted", "task_status_changed",
     "task_added_to_milestone", "task_removed_from_milestone",
     "task_dependency_added", "task_dependency_removed", "task_started",
     "task_completed", "task_blocked", "task_unblocked", "task_time_logged"}

\* Records another writer left in the file: one of a kind the enum does not
\* have, and one of a later version.
EUnknownKind == createEvent("e4", "task_archived", 4, ("taskId" :> "t1"))
ELaterVersion == [E2 EXCEPT !.version = 2]
Batches == {<<>>, <<E2, E3>>, <<E3, E1>>}
EntityIds == {"p1", "t1"}
EventTypes == {"task_updated"}
TimeRanges == {<<2, 3>>}

\* ------------------------------------------------------------------- JSON
\* JSON.stringify(event): a key whose value is undefined is left out.
DropUndefined(p) == [k \in {x \in DOMAIN p : p[x] # Undefined} |-> p[k]]

JSONstringify(e) ==
    [kind |-> "json", ev |-> [e EXCEPT !.payload = DropUndefined(e.payload)]]

\* A line of the file that JSON.parse rejects, and the empty line.
BadLine == [kind |-> "bad"]
BlankLine == [kind |-> "blank"]

\* JSON.parse(line) for a line it accepts.
JSONparse(line) == line.ev

\* What a caller compares: an event up to its JSON form.
JsonForm(evs) == [i \in 1..Len(evs) |-> JSONstringify(evs[i]).ev]

\* ------------------------------------------------------------- sequences
IsPrefix(s, t) == Len(s) <= Len(t) /\ SubSeq(t, 1, Len(s)) = s

RECURSIVE Indices(_, _)
\* Array.prototype.filter over positions 1..n: the kept positions, in order.
Indices(n, keep) ==
    IF n = 0 THEN <<>>
    ELSE IF n \in keep THEN Append(Indices(n - 1, keep), n)
         ELSE Indices(n - 1, keep)

At(s, idx) == [i \in 1..Len(idx) |-> s[idx[i]]]

Zeros(n) == [i \in 1..n |-> 0]


\* ------------------------------------------------------------------ state
VARIABLES
    events,       \* FileEventStore.events: the in-memory log
    initialized,  \* FileEventStore.initialized
    dirExists,    \* whether storageDir exists
    eventsFile,   \* events.jsonl: [exists, lines, torn]
    calls,        \* the calls in flight on the FileEventStore, by slot
    ret,          \* the last result a read of the FileEventStore returned
    faults,       \* I/O failures so far
    acked,        \* the events of the save calls that resolved since the last clear, in order
    rejected,     \* the last save call that rejected because its write failed
    hist,         \* what has happened so far: [cleared, reopened, loadFailed, startEmpty]
    memEvents,    \* InMemoryEventStore.events
    memRet        \* the last result a read of the InMemoryEventStore returned

storeVars == <<events, initialized, dirExists, eventsFile, calls, ret, faults,
               acked, rejected, hist>>
memVars == <<memEvents, memRet>>

Slots == 1..MaxCalls
SaveOps == {"saveEvent", "saveEvents"}
ReadOps == {"getAllEvents", "getEventById", "getEventsByEntityId",
            "getEventsByTimeRange", "getEventsByType"}

Request(op, evs, key, lo, hi) ==
    [op |-> op, evs |-> evs, key |-> key, lo |-> lo, hi |-> hi]

SaveRequests ==
    {Request("saveEvent", <<e>>, "", 0, 0) : e \in EventPool}
    \cup {Request("saveEvents", b, "", 0, 0) : b \in Batches}

ReadRequests ==
    {Request("getAllEvents", <<>>, "", 0, 0)}
    \cup {Request("getEventById", <<>>, k, 0, 0) : k \in {"e1"}}
    \cup {Request("getEventsByEntityId", <<>>, k, 0, 0) : k \in EntityIds}
    \cup {Request("getEventsByType", <<>>, k, 0, 0) : k \in EventTypes}
    \cup {Request("getEventsByTimeRange", <<>>, "", r[1], r[2]) : r \in TimeRanges}

ClearRequest == Request("clear", <<>>, "", 0, 0)

Idle ==
    [op |-> "none", evs |-> <<>>, key |-> "", lo |-> 0, hi |-> 0,
     pc |-> "idle", buf |-> <<>>, pre |-> <<>>]

NoResult == [op |-> "none", vals |-> <<>>, idx |-> <<>>, isArray |-> FALSE,
             seen |-> <<>>, pristine |-> TRUE]
NoRejected == [active |-> FALSE, pre |-> <<>>, evs |-> <<>>]

AllIdle == \A c \in Slots : calls[c].op = "none"

\* The log, in memory and on file, has room for these events.
Room(evs) ==
    /\ Len(events) + Len(evs) <= MaxLog
    /\ Len(eventsFile.lines) + Len(evs) <= MaxLog

\* ---------------------------------------------------------- the log file
NoFile == [exists |-> FALSE, lines |-> <<>>, torn |-> FALSE]
FileOf(lines) == [exists |-> TRUE, lines |-> lines, torn |-> FALSE]

\* The lines content.trim().split("\n") yields: a write that stopped part-way
\* leaves an unfinished last line.
Lines(f) == IF f.torn THEN Append(f.lines, BadLine) ELSE f.lines

\* Deno.writeTextFile(path, text, {append: true}) with text = lines joined by
\* "\n" plus a final "\n": the first line lands on an unfinished last line.
AppendToFile(f, ls) ==
    IF f.torn
    THEN [exists |-> TRUE, lines |-> Append(f.lines, BadLine) \o Tail(ls),
          torn |-> FALSE]
    ELSE [exists |-> TRUE, lines |-> f.lines \o ls, torn |-> FALSE]

\* The same write failing after k whole lines and a part of the next one.
TornAppend(f, ls, k) ==
    [exists |-> TRUE,
     lines |-> IF k = 0 THEN f.lines ELSE AppendToFile(f, SubSeq(ls, 1, k)).lines,
     torn |-> TRUE]

\* The events of the lines JSON.parse accepts, in file order.
ValidEvents(lines) ==
    LET idx == Indices(Len(lines), {i \in 1..Len(lines) : lines[i].kind = "json"})
    IN [i \in 1..Len(idx) |-> JSONparse(lines[idx[i]])]

\* loadEvents (lines 80-88): blank lines are filtered out, the others parsed;
\* one line that JSON.parse rejects throws, and the catch leaves the log empty.
loadEvents(f) ==
    LET lines == Lines(f)
        kept == Indices(Len(lines), {i \in 1..Len(lines) : lines[i].kind # "blank"})
    IN IF \E i \in 1..Len(kept) : lines[kept[i]].kind = "bad"
       THEN <<>>
       ELSE [i \in 1..Len(kept) |-> JSONparse(lines[kept[i]])]

\* appendEventToFile / appendEventsToFile: the text handed to writeTextFile,
\* as lines. An empty batch joins to "" and writes one empty line.
appendEventToFile(e) == <<JSONstringify(e)>>
appendEventsToFile(evs) ==
    IF evs = <<>> THEN <<BlankLine>>
    ELSE [i \in 1..Len(evs) |-> JSONstringify(evs[i])]

\* ------------------------------------------------------------------ reads
\* The payload test of getEventsByEntityId.
ReferencesEntity(e, entityId) ==
    LET p == e.payload
        Has(k) == k \in DOMAIN p /\ p[k] = entityId
    IN \/ Has("projectId")
       \/ Has("milestoneId")
       \/ Has("taskId")
       \/ Has("project.projectId")
       \/ Has("milestone.milestoneId")
       \/ Has("task.taskId")

getAllEvents(log) == Indices(Len(log), 1..Len(log))

getEventById(log, eventId) ==
    LET hits == {i \in 1..Len(log) : log[i].id = eventId}
    IN IF hits = {} THEN <<>>
       ELSE <<CHOOSE i \in hits : \A j \in hits : i <= j>>

getEventsByEntityId(log, entityId) ==
    Indices(Len(log), {i \in 1..Len(log) : ReferencesEntity(log[i], entityId)})

getEventsByTimeRange(log, start, end) ==
    Indices(Len(log), {i \in 1..Len(log) :
                          log[i].timestamp >= start /\ log[i].timestamp <= end})

getEventsByType(log, eventType) ==
    Indices(Len(log), {i \in 1..Len(log) : log[i].type = eventType})

\* The positions of the log a read returns. The elements of the result are
\* the log's own objects; getEventById returns the object itself, the others
\* a new array.
ReadIndices(log, req) ==
    CASE req.op = "getAllEvents" -> getAllEvents(log)
      [] req.op = "getEventById" -> getEventById(log, req.key)
      [] req.op = "getEventsByEntityId" -> getEventsByEntityId(log, req.key)
      [] req.op = "getEventsByTimeRange" -> getEventsByTimeRange(log, req.lo, req.hi)
      [] req.op = "getEventsByType" -> getEventsByType(log, req.key)

ReadResult(log, req, seen) ==
    LET idx == ReadIndices(log, req)
    IN [op |-> req.op, vals |-> At(log, idx), idx |-> idx,
        isArray |-> req.op # "getEventById", seen |-> seen, pristine |-> TRUE]

\* this.events = ...: the objects of an earlier result are no longer the log's.
Detached(r) == [r EXCEPT !.idx = Zeros(Len(r.idx))]


\* ------------------------------------------------- FileEventStore, by step
\* A call starts: clear() assigns this.events and starts its write; every
\* other method runs initialize() up to its first await (lines 38-45). The
\* caller lets go of the result of its previous read.
Call(c, req) ==
    /\ calls[c].op = "none"
    /\ req.op \in SaveOps => Room(req.evs)
    /\ rejected' = IF req.op \in ReadOps THEN rejected ELSE NoRejected
    /\ ret' = NoResult
    /\ IF req.op = "clear"
       THEN /\ events' = <<>>
            /\ hist' = [hist EXCEPT !.cleared = TRUE]
            /\ calls' = [calls EXCEPT ![c] = req @@ [Idle EXCEPT !.pc = "clearWrite"]]
       ELSE /\ calls' = [calls EXCEPT ![c] = req @@
                   [Idle EXCEPT !.pc = IF initialized THEN "afterInit" ELSE "statDir"]]
            /\ UNCHANGED <<events, hist>>
    /\ UNCHANGED <<initialized, dirExists, eventsFile, faults, acked>>

\* The call rejects: initialize() logs and rethrows (lines 68-71).
Reject(c) == [calls EXCEPT ![c] = Idle]

\* await Deno.stat(this.storageDir) settles (lines 44-52).
StatDirDone(c) ==
    /\ calls[c].pc = "statDir"
    /\ \/ /\ calls' = [calls EXCEPT ![c].pc = IF dirExists THEN "statFile" ELSE "mkdir"]
          /\ UNCHANGED faults
       \/ /\ faults < MaxFaults
          /\ faults' = faults + 1
          /\ calls' = Reject(c)
    /\ UNCHANGED <<events, initialized, dirExists, eventsFile, ret, acked, rejected, hist>>

\* await Deno.mkdir(this.storageDir, {recursive: true}) settles (line 48).
MkdirDone(c) ==
    /\ calls[c].pc = "mkdir"
    /\ \/ /\ dirExists' = TRUE
          /\ calls' = [calls EXCEPT ![c].pc = "statFile"]
          /\ UNCHANGED faults
       \/ /\ faults < MaxFaults
          /\ faults' = faults + 1
          /\ calls' = Reject(c)
          /\ UNCHANGED dirExists
    /\ UNCHANGED <<events, initialized, eventsFile, ret, acked, rejected, hist>>

\* await Deno.stat(this.eventsFile) settles (lines 55-65): the file is there
\* and loadEvents starts its read, or it is not and the log is set empty.
StatFileDone(c) ==
    /\ calls[c].pc = "statFile"
    /\ \/ /\ eventsFile.exists
          /\ calls' = [calls EXCEPT ![c].pc = "read"]
          /\ UNCHANGED <<events, initialized, ret, faults>>
       \/ /\ ~eventsFile.exists
          /\ events' = <<>>
          /\ ret' = Detached(ret)
          /\ initialized' = TRUE
          /\ calls' = [calls EXCEPT ![c].pc = "afterInit"]
          /\ UNCHANGED faults
       \/ /\ faults < MaxFaults
          /\ faults' = faults + 1
          /\ calls' = Reject(c)
          /\ UNCHANGED <<events, initialized, ret>>
    /\ UNCHANGED <<dirExists, eventsFile, acked, rejected, hist>>

\* await Deno.readTextFile(this.eventsFile) settles and loadEvents assigns
\* this.events (lines 79-88); a failed read leaves the log empty as well.
ReadDone(c) ==
    /\ calls[c].pc = "read"
    /\ \/ /\ events' = loadEvents(eventsFile)
          /\ calls' = [calls EXCEPT ![c].pc = "loaded"]
          /\ UNCHANGED <<faults, hist>>
       \/ /\ faults < MaxFaults
          /\ faults' = faults + 1
          /\ events' = <<>>
          /\ calls' = [calls EXCEPT ![c].pc = "loadFailed"]
          /\ hist' = [hist EXCEPT !.loadFailed = TRUE]
    /\ ret' = Detached(ret)
    /\ UNCHANGED <<initialized, dirExists, eventsFile, acked, rejected>>

\* initialize() resumes after await this.loadEvents() (line 67).
LoadReturned(c) ==
    /\ calls[c].pc \in {"loaded", "loadFailed"}
    /\ initialized' = TRUE
    /\ calls' = [calls EXCEPT ![c].pc = "afterInit"]
    /\ UNCHANGED <<events, dirExists, eventsFile, ret, faults, acked, rejected, hist>>

\* saveEvent that puts the event in front of the log.
saveEventInFront(log, event) == <<event>> \o log

\* saveEvent: this.events.push(event) (line 134).
saveEvent(log, event) == Append(log, event)

\* The batch put in front of the log.
saveEventsInFront(log, evs) == evs \o log

\* saveEvents: this.events.push(...events) (line 151).
saveEvents(log, evs) == log \o evs

\* The method resumes after await this.initialize(): a save pushes onto the
\* log, serializes and starts its write (lines 134-137, 151-154); a read
\* computes its result and resolves.
AfterInit(c) ==
    /\ calls[c].pc = "afterInit"
    /\ LET call == calls[c]
       IN IF call.op \in SaveOps
          THEN /\ events' = IF call.op = "saveEvent"
                            THEN saveEvent(events, call.evs[1])
                            ELSE saveEvents(events, call.evs)
               /\ calls' = [calls EXCEPT ![c].pc = "write",
                                         ![c].pre = events,
                                         ![c].buf = IF call.op = "saveEvent"
                                                    THEN appendEventToFile(call.evs[1])
                                                    ELSE appendEventsToFile(call.evs)]
               /\ ret' = ret
          ELSE /\ ret' = ReadResult(events, call, acked)
               /\ calls' = [calls EXCEPT ![c] = Idle]
               /\ events' = events
    /\ UNCHANGED <<initialized, dirExists, eventsFile, faults, acked, rejected, hist>>

\* await Deno.writeTextFile(..., {append: true}) settles: the text is in the
\* file and the call resolves, or the write failed, with nothing or a part of
\* the text written, and the call rejects (lines 98-104, 116-122).
WriteDone(c) ==
    /\ calls[c].pc = "write"
    /\ \/ /\ eventsFile' = AppendToFile(eventsFile, calls[c].buf)
          /\ acked' = acked \o calls[c].evs
          /\ UNCHANGED <<faults, rejected>>
       \/ /\ faults < MaxFaults
          /\ faults' = faults + 1
          /\ \/ eventsFile' = eventsFile
             \/ \E k \in 0..(Len(calls[c].buf) - 1) :
                    eventsFile' = TornAppend(eventsFile, calls[c].buf, k)
          /\ rejected' = [active |-> TRUE, pre |-> calls[c].pre, evs |-> calls[c].evs]
          /\ UNCHANGED acked
    /\ calls' = [calls EXCEPT ![c] = Idle]
    /\ UNCHANGED <<events, initialized, dirExists, ret, hist>>

\* clear(): await Deno.writeTextFile(this.eventsFile, "") settles (lines
\* 276-281); without the directory the write fails.
ClearWriteDone(c) ==
    /\ calls[c].pc = "clearWrite"
    /\ \/ /\ dirExists
          /\ eventsFile' = FileOf(<<>>)
          /\ acked' = <<>>
          /\ UNCHANGED faults
       \/ /\ ~dirExists
          /\ UNCHANGED <<eventsFile, acked, faults>>
       \/ /\ dirExists
          /\ faults < MaxFaults
          /\ faults' = faults + 1
          /\ UNCHANGED <<eventsFile, acked>>
    /\ calls' = [calls EXCEPT ![c] = Idle]
    /\ UNCHANGED <<events, initialized, dirExists, ret, rejected, hist>>

\* A new FileEventStore is constructed on the same storage directory (lines
\* 18-19, 25-30).
NewInstance ==
    /\ AllIdle
    /\ initialized \/ events # <<>>
    /\ events' = <<>>
    /\ initialized' = FALSE
    /\ ret' = Detached(ret)
    /\ rejected' = NoRejected
    /\ hist' = [hist EXCEPT !.reopened = TRUE]
    /\ UNCHANGED <<dirExists, eventsFile, calls, faults, acked>>

\* The caller changes an event object a read returned: the object is the
\* log's own when the log still holds it. A caller does so once per log.
Tamper(e) == [e EXCEPT !.type = "tampered"]

Untampered(log) == \A i \in 1..Len(log) : log[i].type # "tampered"

MutateReturnedEvent ==
    /\ AllIdle
    /\ ret.pristine
    /\ Untampered(events)
    /\ \E i \in 1..Len(ret.vals) :
          /\ ret.vals[i].type # "tampered"
          /\ ret' = [ret EXCEPT !.vals[i] = Tamper(@), !.pristine = FALSE]
          /\ events' = IF ret.idx[i] = 0 THEN events
                       ELSE [events EXCEPT ![ret.idx[i]] = Tamper(@)]
    /\ UNCHANGED <<initialized, dirExists, eventsFile, calls, faults, acked,
                   rejected, hist>>

\* The caller removes the first element of an array a read returned.
MutateReturnedArray ==
    /\ AllIdle
    /\ ret.pristine
    /\ ret.isArray
    /\ ret.vals # <<>>
    /\ ret' = [ret EXCEPT !.vals = Tail(@), !.idx = Tail(@), !.pristine = FALSE]
    /\ UNCHANGED <<events, initialized, dirExists, eventsFile, calls, faults,
                   acked, rejected, hist>>


\* ---------------------------------------------------- InMemoryEventStore
\* Every method of InMemoryEventStore runs to its end in the call: a save
\* pushes onto the log, a read returns the log's objects, clear replaces the
\* log.
MemCall(req) ==
    CASE req.op = "saveEvent" ->
            /\ memEvents' = Append(memEvents, req.evs[1])
            /\ memRet' = NoResult
      [] req.op = "saveEvents" ->
            /\ memEvents' = memEvents \o req.evs
            /\ memRet' = NoResult
      [] req.op = "clear" ->
            /\ memEvents' = <<>>
            /\ memRet' = NoResult
      [] OTHER ->
            /\ memRet' = ReadResult(memEvents, req, acked)
            /\ memEvents' = memEvents

MemMutateReturnedEvent ==
    /\ AllIdle
    /\ memRet.pristine
    /\ Untampered(memEvents)
    /\ \E i \in 1..Len(memRet.vals) :
          /\ memRet.vals[i].type # "tampered"
          /\ memRet' = [memRet EXCEPT !.vals[i] = Tamper(@), !.pristine = FALSE]
          /\ memEvents' = IF memRet.idx[i] = 0 THEN memEvents
                          ELSE [memEvents EXCEPT ![memRet.idx[i]] = Tamper(@)]

MemMutateReturnedArray ==
    /\ AllIdle
    /\ memRet.pristine
    /\ memRet.isArray
    /\ memRet.vals # <<>>
    /\ memRet' = [memRet EXCEPT !.vals = Tail(@), !.idx = Tail(@), !.pristine = FALSE]
    /\ UNCHANGED memEvents


\* ------------------------------------- ProgressStorage and ProgressManager
MaxChildren == 3
MaxMilestones == 2
MaxTasks == 1
MaxIds == 2
MaxClock == 3
MaxBuilds == 2
MaxEmitted == 3

NOT_STARTED == "not_started"
IN_PROGRESS == "in_progress"
COMPLETED == "completed"
BLOCKED == "blocked"
Status == {NOT_STARTED, IN_PROGRESS, COMPLETED, BLOCKED}

TASK_CREATED == "progress:task_created"
TASK_UPDATED == "progress:task_updated"
TASK_STARTED == "progress:task_started"
TASK_COMPLETED == "progress:task_completed"
MILESTONE_CREATED == "progress:milestone_created"
MILESTONE_UPDATED == "progress:milestone_updated"
MILESTONE_COMPLETED == "progress:milestone_completed"
PROJECT_CREATED == "progress:project_created"
PROJECT_UPDATED == "progress:project_updated"
PROGRESS_UPDATED == "progress:updated"

VARIABLES
    progressData, \* ProgressStorage.progressData: [isNull, projects, projectIds, statistics]
    projectMap,   \* ProgressStorage.projectMap: the projects it holds, one per id
    milestoneMap, \* ProgressStorage.milestoneMap: the milestones it holds, one per id
    taskMap,      \* ProgressStorage.taskMap: the tasks it holds, one per id
    emitted,      \* what the manager has emitted on its EventEmitter, in order
    outcome,      \* how the last call ended: [op, args, wrote, result]
    nextId,       \* how many ids crypto.randomUUID has handed out, plus one
    clock,        \* the time new Date() reads, in milliseconds
    built,        \* the AppStates createInitialState has returned, in order
    progressFile, \* the file at storagePath: [exists, text]
    saving,       \* the calls of ProgressStorage.save in flight: [pc, text]
    saveErrors,   \* how many failures save has caught and logged
    held          \* what callers hold: [progressData, snapshot, of]

mgrVars == <<progressData, projectMap, milestoneMap, taskMap, emitted, outcome,
             nextId, clock, built, progressFile, saving, saveErrors, held>>

\* An id: data that is handed to the storage names its entities; the ids the
\* manager makes come from crypto.randomUUID and are new.
Id(kind, n) == <<kind, n>>
randomUUID(n) == Id("uuid", n)
MissingId == Id("missing", 0)

\* An optional property that is absent (actualPoints, startTime, endTime).
NoValue == -1

\* The default of addTask's estimatedPoints parameter (line 500).
DefaultEstimatedPoints == 1

\* A task: times are milliseconds as Date.getTime reads the ISO string.
Task(taskId, status, estimatedPoints, actualPoints, startTime, endTime) ==
    [taskId |-> taskId, status |-> status, estimatedPoints |-> estimatedPoints,
     actualPoints |-> actualPoints, startTime |-> startTime, endTime |-> endTime]

Milestone(milestoneId, milestoneStatus, tasks) ==
    [milestoneId |-> milestoneId, milestoneStatus |-> milestoneStatus,
     tasks |-> tasks]

\* A project object with its milestones array, as the manager builds it:
\* it has no milestoneIds property.
Project(projectId, projectStatus, milestones) ==
    [projectId |-> projectId, projectStatus |-> projectStatus,
     hasMilestones |-> TRUE, milestones |-> milestones,
     hasMilestoneIds |-> FALSE, milestoneIds |-> <<>>]

\* A project object of the type the storage declares for its map: it lists
\* the ids of its milestones.
ProjectDetails(projectId, projectStatus, milestoneIds) ==
    [projectId |-> projectId, projectStatus |-> projectStatus,
     hasMilestones |-> FALSE, milestones |-> <<>>,
     hasMilestoneIds |-> TRUE, milestoneIds |-> milestoneIds]

\* The object literal addProject and updateProject put into
\* progressData.projects: projectId, projectStatus, title, description,
\* createdAt, updatedAt, and no milestones property.
ProjectBase(project) ==
    [projectId |-> project.projectId, projectStatus |-> project.projectStatus,
     hasMilestones |-> FALSE, milestones |-> <<>>,
     hasMilestoneIds |-> FALSE, milestoneIds |-> <<>>]

\* config.get("progress").pointsPerHour as the default configuration sets it.
pointsPerHour == 2

\* 1000 * 60 * 60 (line 817).
MsPerHour == 3600000

\* The number num / den.
Number(num, den) == [num |-> num, den |-> den]

Statistics(totalTasks, completedTasks, totalPoints, earnedPoints, average) ==
    [totalTasks |-> totalTasks, completedTasks |-> completedTasks,
     totalPoints |-> totalPoints, earnedPoints |-> earnedPoints,
     averagePointsPerHour |-> average]

EmptyStatistics == Statistics(0, 0, 0, 0, Number(pointsPerHour, 1))

NullData ==
    [isNull |-> TRUE, projects |-> <<>>, projectIds |-> <<>>,
     statistics |-> EmptyStatistics]

createEmptyProgressData ==
    [isNull |-> FALSE, projects |-> <<>>, projectIds |-> <<>>,
     statistics |-> EmptyStatistics]

\* No file at storagePath.
NoProgressFile == [exists |-> FALSE, text |-> NullData]

\* No caller holds anything the storage or createStateSnapshot returned.
NothingHeld == [progressData |-> FALSE, snapshot |-> <<>>, of |-> 0]

\* The manager's state as its methods pass it on: the storage's data and
\* map, the emitted events, the composite statuses the call has assigned, and
\* how the method ended ("ok", "null" for a null return, "TypeError" for a
\* throw).
MState ==
    [pd |-> progressData, map |-> projectMap, milestoneMap |-> milestoneMap,
     taskMap |-> taskMap, emitted |-> emitted, wrote |-> <<>>, result |-> "ok",
     saves |-> 0]

Result(st, r) == [st EXCEPT !.result = r]

\* ProgressStorage.initializeMaps: the three maps are cleared, and every
\* project of projectIds is looked up in the map just cleared, so nothing
\* is put back.
initializeMaps(st) ==
    [st EXCEPT !.map = {}, !.milestoneMap = {}, !.taskMap = {}]

\* ProgressStorage.getProgressData: null data becomes empty data and the maps
\* are cleared.
getProgressData(st) ==
    IF st.pd.isNull
    THEN initializeMaps([st EXCEPT !.pd = createEmptyProgressData])
    ELSE st

\* Array.prototype.find / findIndex by id: the first position, 0 for none.
First(hits) == IF hits = {} THEN 0 ELSE CHOOSE i \in hits : \A j \in hits : i <= j
FindProject(projects, projectId) ==
    First({i \in 1..Len(projects) : projects[i].projectId = projectId})
FindMilestone(milestones, milestoneId) ==
    First({i \in 1..Len(milestones) : milestones[i].milestoneId = milestoneId})
FindTask(tasks, taskId) ==
    First({i \in 1..Len(tasks) : tasks[i].taskId = taskId})

\* Map.prototype.set on projectMap.
MapSet(map, project) ==
    {q \in map : q.projectId # project.projectId} \cup {project}

\* ProgressStorage.addProject: the project goes into the map, a ProjectBase
\* literal onto progressData.projects, the id onto projectIds when new.
addProject(st, project) ==
    LET pd == IF st.pd.isNull THEN createEmptyProgressData ELSE st.pd
    IN [st EXCEPT
          !.map = MapSet(st.map, project),
          !.pd = [pd EXCEPT
                    !.projects = Append(pd.projects, ProjectBase(project)),
                    !.projectIds =
                        IF \E i \in 1..Len(pd.projectIds) :
                               pd.projectIds[i] = project.projectId
                        THEN pd.projectIds
                        ELSE Append(pd.projectIds, project.projectId)]]

\* ProgressStorage.updateProject: the project goes into the map and a
\* ProjectBase literal replaces the entry of progressData.projects.
updateProject(st, project) ==
    IF st.pd.isNull THEN st
    ELSE LET index == FindProject(st.pd.projects, project.projectId)
         IN [st EXCEPT
               !.map = MapSet(st.map, project),
               !.pd.projects = IF index = 0 THEN st.pd.projects
                               ELSE [st.pd.projects EXCEPT
                                       ![index] = ProjectBase(project)]]

\* ProgressStorage.save as the manager calls it, without await: the call
\* returns at once when there is no data, and else runs up to its first
\* await and is left in flight.
save(st) == IF st.pd.isNull THEN st ELSE [st EXCEPT !.saves = @ + 1]

\* An emitted event: its type, the entity it carries, and the status that
\* entity had before the handler wrote it and has now.
Event(type, id, was, now) == [type |-> type, id |-> id, was |-> was, now |-> now]

Emit(st, e) == [st EXCEPT !.emitted = Append(st.emitted, e)]

\* The call has assigned the status of this milestone or project.
Wrote(st, level, projectId, id) ==
    [st EXCEPT !.wrote = Append(st.wrote, [level |-> level,
                                           projectId |-> projectId, id |-> id])]

\* The chain with Blocked tested before InProgress.
MilestoneStatusChainBlockedFirst(tasks) ==
    IF \A i \in 1..Len(tasks) : tasks[i].status = COMPLETED THEN COMPLETED
    ELSE IF \E i \in 1..Len(tasks) : tasks[i].status = BLOCKED THEN BLOCKED
    ELSE IF \E i \in 1..Len(tasks) : tasks[i].status = IN_PROGRESS THEN IN_PROGRESS
    ELSE NOT_STARTED

\* The if / else-if chain of updateMilestoneStatus (lines 678-696).
MilestoneStatusChain(tasks) ==
    IF \A i \in 1..Len(tasks) : tasks[i].status = COMPLETED THEN COMPLETED
    ELSE IF \E i \in 1..Len(tasks) : tasks[i].status = IN_PROGRESS THEN IN_PROGRESS
    ELSE IF \E i \in 1..Len(tasks) : tasks[i].status = BLOCKED THEN BLOCKED
    ELSE NOT_STARTED

\* The if / else-if chain of updateProjectStatus (lines 733-752).
ProjectStatusChain(milestones) ==
    IF \A i \in 1..Len(milestones) : milestones[i].milestoneStatus = COMPLETED
    THEN COMPLETED
    ELSE IF \E i \in 1..Len(milestones) : milestones[i].milestoneStatus = IN_PROGRESS
    THEN IN_PROGRESS
    ELSE IF \E i \in 1..Len(milestones) : milestones[i].milestoneStatus = BLOCKED
    THEN BLOCKED
    ELSE NOT_STARTED

\* ProgressManager.updateProjectStatus. Reading project.milestones.length
\* of an entry that has no milestones property throws a TypeError.
updateProjectStatus(st0, projectId) ==
    LET st == getProgressData(st0)
        pi == FindProject(st.pd.projects, projectId)
    IN IF pi = 0 THEN Result(st, "null")
       ELSE LET project == st.pd.projects[pi]
            IN IF ~project.hasMilestones THEN Result(st, "TypeError")
               ELSE IF Len(project.milestones) = 0
               THEN [Wrote(st, "project", projectId, projectId) EXCEPT
                       !.pd.projects[pi].projectStatus = NOT_STARTED,
                       !.result = "ok"]
               ELSE LET now == ProjectStatusChain(project.milestones)
                        updated == [project EXCEPT !.projectStatus = now]
                    IN Result(Emit(save(updateProject(Wrote(st, "project", projectId,
                                                            projectId), updated)),
                                   Event(PROJECT_UPDATED, projectId,
                                         project.projectStatus, now)),
                              "ok")

\* ProgressManager.updateMilestoneStatus, with its call of
\* updateProjectStatus. Calling project.milestones.find on an entry that has
\* no milestones property throws a TypeError; a throw of updateProjectStatus
\* passes through.
updateMilestoneStatus(st0, projectId, milestoneId) ==
    LET st == getProgressData(st0)
        pi == FindProject(st.pd.projects, projectId)
    IN IF pi = 0 THEN Result(st, "null")
       ELSE LET project == st.pd.projects[pi]
            IN IF ~project.hasMilestones THEN Result(st, "TypeError")
               ELSE LET mi == FindMilestone(project.milestones, milestoneId)
                    IN IF mi = 0 THEN Result(st, "null")
                       ELSE LET milestone == project.milestones[mi]
                            IN IF Len(milestone.tasks) = 0
                               THEN [Wrote(st, "milestone", projectId, milestoneId)
                                     EXCEPT
                                       !.pd.projects[pi].milestones[mi].milestoneStatus =
                                           NOT_STARTED,
                                       !.result = "ok"]
                               ELSE LET now == MilestoneStatusChain(milestone.tasks)
                                        was == milestone.milestoneStatus
                                        updated == [project EXCEPT
                                                      !.milestones[mi].milestoneStatus = now]
                                        st0w == Wrote(st, "milestone", projectId,
                                                      milestoneId)
                                        st1 == IF now = COMPLETED
                                               THEN Emit(st0w, Event(MILESTONE_COMPLETED,
                                                                     milestoneId, was, now))
                                               ELSE st0w
                                        st2 == Emit(save(updateProject(st1, updated)),
                                                    Event(MILESTONE_UPDATED, milestoneId,
                                                          was, now))
                                        st3 == updateProjectStatus(st2, projectId)
                                    IN IF st3.result = "TypeError" THEN st3
                                       ELSE Result(st3, "ok")

\* ProgressManager.createProject; projectId is what crypto.randomUUID gave.
createProject(st, projectId) ==
    LET project == Project(projectId, NOT_STARTED, <<>>)
    IN Result(Emit(save(addProject(st, project)),
                   Event(PROJECT_CREATED, projectId, NOT_STARTED, NOT_STARTED)),
              "ok")

\* ProgressManager.addMilestone. project.milestones.push on an entry that
\* has no milestones property throws a TypeError.
addMilestone(st0, parentProjectId, milestoneId) ==
    LET st == getProgressData(st0)
        pi == FindProject(st.pd.projects, parentProjectId)
    IN IF pi = 0 THEN Result(st, "null")
       ELSE LET project == st.pd.projects[pi]
            IN IF ~project.hasMilestones THEN Result(st, "TypeError")
               ELSE LET milestone == Milestone(milestoneId, NOT_STARTED, <<>>)
                        updated == [project EXCEPT
                                      !.milestones = Append(@, milestone)]
                    IN Result(Emit(save(updateProject(st, updated)),
                                   Event(MILESTONE_CREATED, milestoneId,
                                         NOT_STARTED, NOT_STARTED)),
                              "ok")

\* ProgressManager.addTask.
addTask(st0, projectId, milestoneId, taskId, estimatedPoints) ==
    LET st == getProgressData(st0)
        pi == FindProject(st.pd.projects, projectId)
    IN IF pi = 0 THEN Result(st, "null")
       ELSE LET project == st.pd.projects[pi]
            IN IF ~project.hasMilestones THEN Result(st, "TypeError")
               ELSE LET mi == FindMilestone(project.milestones, milestoneId)
                    IN IF mi = 0 THEN Result(st, "null")
                       ELSE LET task == Task(taskId, NOT_STARTED, estimatedPoints,
                                             NoValue, NoValue, NoValue)
                                updated == [project EXCEPT
                                              !.milestones[mi].tasks = Append(@, task)]
                            IN Result(Emit(save(updateProject(st, updated)),
                                           Event(TASK_CREATED, taskId,
                                                 NOT_STARTED, NOT_STARTED)),
                                      "ok")

\* The assignments of updateTaskStatus to the task it found (lines 598-611):
\* the status is set whatever it was, startTime when the task goes from
\* NotStarted to InProgress, endTime and actualPoints when it is set
\* Completed.
StampTask(task, status, now) ==
    [task EXCEPT
       !.status = status,
       !.startTime = IF task.status = NOT_STARTED /\ status = IN_PROGRESS
                     THEN now ELSE @,
       !.endTime = IF status = COMPLETED THEN now ELSE @,
       !.actualPoints = IF status = COMPLETED THEN task.estimatedPoints ELSE @]

\* ProgressManager.updateTaskStatus, with its call of updateMilestoneStatus.
updateTaskStatus(st0, projectId, milestoneId, taskId, status) ==
    LET st == getProgressData(st0)
        pi == FindProject(st.pd.projects, projectId)
    IN IF pi = 0 THEN Result(st, "null")
       ELSE LET project == st.pd.projects[pi]
            IN IF ~project.hasMilestones THEN Result(st, "TypeError")
               ELSE LET mi == FindMilestone(project.milestones, milestoneId)
                    IN IF mi = 0 THEN Result(st, "null")
                       ELSE LET ti == FindTask(project.milestones[mi].tasks, taskId)
                            IN IF ti = 0 THEN Result(st, "null")
                               ELSE LET oldStatus ==
                                            project.milestones[mi].tasks[ti].status
                                        updated ==
                                            [project EXCEPT
                                               !.milestones[mi].tasks[ti] =
                                                   StampTask(@, status, clock)]
                                        type == IF status = IN_PROGRESS THEN TASK_STARTED
                                                ELSE IF status = COMPLETED
                                                THEN TASK_COMPLETED
                                                ELSE TASK_UPDATED
                                        st1 == Emit(save(updateProject(st, updated)),
                                                    Event(type, taskId, oldStatus, status))
                                        st2 == updateMilestoneStatus(st1, projectId,
                                                                     milestoneId)
                                    IN IF st2.result = "TypeError" THEN st2
                                       ELSE Result(st2, "ok")

RECURSIVE Flatten(_)
\* The elements of the inner sequences, in order: what nested for-of loops
\* visit.
Flatten(ss) == IF ss = <<>> THEN <<>> ELSE Head(ss) \o Flatten(Tail(ss))

RECURSIVE SumSeq(_)
SumSeq(ns) == IF ns = <<>> THEN 0 ELSE Head(ns) + SumSeq(Tail(ns))

\* The tasks the loops of updateStatistics visit (lines 778-780, 802-804).
TasksVisited(projects) ==
    Flatten([i \in 1..Len(projects) |->
               Flatten([k \in 1..Len(projects[i].milestones) |->
                          projects[i].milestones[k].tasks])])

\* task.actualPoints || task.estimatedPoints (line 786): an absent
\* actualPoints and an actualPoints of 0 both give estimatedPoints.
EarnedOf(task) ==
    IF task.actualPoints = NoValue \/ task.actualPoints = 0
    THEN task.estimatedPoints
    ELSE task.actualPoints

\* The condition of lines 805-809: the strings startTime and endTime are
\* there.
HasDuration(task) ==
    task.status = COMPLETED /\ task.startTime # NoValue /\ task.endTime # NoValue

\* The average assigned whatever the summed duration is.
averagePointsPerHourUnguarded(old, completedTasks, earnedPoints, totalMs) ==
    IF completedTasks > 0
    THEN Number(earnedPoints * MsPerHour, totalMs)
    ELSE old

\* Lines 798-828: the average is assigned when a task is Completed and the
\* summed hours are above zero; totalMs is the summed duration in
\* milliseconds, totalHours being totalMs / MsPerHour.
averagePointsPerHour(old, completedTasks, earnedPoints, totalMs) ==
    IF completedTasks > 0 /\ totalMs > 0
    THEN Number(earnedPoints * MsPerHour, totalMs)
    ELSE old

\* The statistics updateStatistics computes over these projects (lines
\* 772-828); old is the statistics object it assigns to.
computeStatistics(projects, old) ==
    LET tasks == TasksVisited(projects)
        n == Len(tasks)
        done == {i \in 1..n : tasks[i].status = COMPLETED}
        totalPoints == SumSeq([i \in 1..n |-> tasks[i].estimatedPoints])
        earnedPoints == SumSeq([i \in 1..n |-> IF i \in done THEN EarnedOf(tasks[i])
                                                ELSE 0])
        totalMs == SumSeq([i \in 1..n |-> IF HasDuration(tasks[i])
                                           THEN tasks[i].endTime - tasks[i].startTime
                                           ELSE 0])
    IN Statistics(n, Cardinality(done), totalPoints, earnedPoints,
                  averagePointsPerHour(old.averagePointsPerHour, Cardinality(done),
                                       earnedPoints, totalMs))

\* ProgressManager.updateStatistics. Iterating project.milestones of an
\* entry that has no milestones property throws a TypeError before any
\* statistic is assigned. storage.setProgressData runs initializeMaps.
updateStatistics(st0) ==
    LET st == getProgressData(st0)
        projects == st.pd.projects
    IN IF \E i \in 1..Len(projects) : ~projects[i].hasMilestones
       THEN Result(st, "TypeError")
       ELSE LET stats == computeStatistics(projects, st.pd.statistics)
                st1 == save(initializeMaps([st EXCEPT !.pd.statistics = stats]))
            IN Result(Emit(st1, Event(PROGRESS_UPDATED, Id("progress", 0),
                                      "none", "none")),
                      "ok")

Elements(seq) == {seq[i] : i \in 1..Len(seq)}

\* ProgressStorage.deleteProject. Iterating project.milestoneIds of a map
\* entry that has no milestoneIds property throws a TypeError before
\* anything is removed. progressData.projects is left as it is.
deleteProject(st, projectId) ==
    IF st.pd.isNull THEN st
    ELSE LET found == {p \in st.map : p.projectId = projectId}
         IN IF \E p \in found : ~p.hasMilestoneIds THEN Result(st, "TypeError")
            ELSE LET milestoneIds == UNION {Elements(p.milestoneIds) : p \in found}
                     milestones == {m \in st.milestoneMap :
                                      m.milestoneId \in milestoneIds}
                     taskIds == UNION {{t.taskId : t \in Elements(m.tasks)} :
                                          m \in milestones}
                 IN [st EXCEPT
                       !.taskMap = {t \in @ : t.taskId \notin taskIds},
                       !.milestoneMap = {m \in @ : m.milestoneId \notin milestoneIds},
                       !.map = {p \in @ : p.projectId # projectId},
                       !.pd.projectIds =
                           SelectSeq(@, LAMBDA id : id # projectId)]

\* ProgressStorage.addMilestone and updateMilestone: Map.prototype.set on
\* milestoneMap.
storageAddMilestone(st, milestone) ==
    [st EXCEPT !.milestoneMap =
        {m \in @ : m.milestoneId # milestone.milestoneId} \cup {milestone}]

\* ProgressStorage.getProjectById, getMilestoneById, getTaskById: the map's
\* values under the id, none for undefined.
getProjectById(projectId) == {p \in projectMap : p.projectId = projectId}
getMilestoneById(milestoneId) == {m \in milestoneMap : m.milestoneId = milestoneId}
getTaskById(taskId) == {t \in taskMap : t.taskId = taskId}

\* ProgressManager.getProject: the entry of progressData.projects, none for
\* null.
getProject(projectId) ==
    LET pi == FindProject(progressData.projects, projectId)
    IN IF pi = 0 THEN {} ELSE {progressData.projects[pi]}

\* A call of save in flight: at its await of Deno.stat, or, the text made,
\* at its await of Deno.writeTextFile.
SaveAtStat == [pc |-> "stat", text |-> NullData]
SaveAtWrite(text) == [pc |-> "write", text |-> text]

\* The call returns or throws: the storage and the emitter are as the method
\* left them, the saves it started are in flight, and the caller of
\* getProgressData holds what it returned, this.progressData itself.
Returned(st, op, args) ==
    /\ progressData' = st.pd
    /\ projectMap' = st.map
    /\ milestoneMap' = st.milestoneMap
    /\ taskMap' = st.taskMap
    /\ emitted' = st.emitted
    /\ outcome' = [op |-> op, args |-> args, wrote |-> st.wrote,
                   result |-> st.result]
    /\ saving' = saving \o [i \in 1..st.saves |-> SaveAtStat]
    /\ held' = IF op = "getProgressData" THEN [held EXCEPT !.progressData = TRUE]
               ELSE held
    /\ UNCHANGED <<progressFile, saveErrors>>

NoOutcome == [op |-> "none", args |-> <<>>, wrote |-> <<>>, result |-> "ok"]

\* The full project objects the storage holds: the entries of
\* progressData.projects that have their milestones, and the map's values.
HeldProjects ==
    {progressData.projects[i] : i \in {j \in 1..Len(progressData.projects) :
                                          progressData.projects[j].hasMilestones}}
    \cup projectMap

MilestonesOf(p) == {p.milestones[i] : i \in 1..Len(p.milestones)}
TasksOf(m) == {m.tasks[i] : i \in 1..Len(m.tasks)}

\* The arguments a caller may give: the ids of a project, of a project and
\* one of its milestones, or of a project, a milestone and one of its tasks,
\* as getProgressData shows them, the last of them possibly an id that names
\* nothing.
EntriesShown == {progressData.projects[i] : i \in 1..Len(progressData.projects)}
ProjectsNamed == {<<p.projectId>> : p \in EntriesShown} \cup {<<MissingId>>}
MilestonesNamed ==
    UNION {{<<p.projectId, m.milestoneId>> : m \in MilestonesOf(p)}
           \cup {<<p.projectId, MissingId>>} : p \in EntriesShown}
TasksNamed ==
    UNION {UNION {{<<p.projectId, m.milestoneId, t.taskId>> : t \in TasksOf(m)}
                  \cup {<<p.projectId, m.milestoneId, MissingId>>} :
                     m \in MilestonesOf(p)} : p \in EntriesShown}

\* ProgressStorage.setProgressData, on a storage that holds no data yet:
\* initializeMaps clears the maps and looks every project up in the map it
\* has just cleared, so the maps stay empty.
setProgressData(data) ==
    /\ progressData.isNull
    /\ progressData' = data
    /\ projectMap' = {}
    /\ milestoneMap' = {}
    /\ taskMap' = {}
    /\ outcome' = [NoOutcome EXCEPT !.op = "setProgressData"]
    /\ UNCHANGED <<emitted, nextId, clock, built, progressFile, saving,
                   saveErrors, held>>

CallCreateProject ==
    /\ nextId <= MaxIds
    /\ Returned(createProject(MState, randomUUID(nextId)), "createProject", <<>>)
    /\ nextId' = nextId + 1
    /\ UNCHANGED <<clock, built>>

\* crypto.randomUUID is called once the project is found (line 458).
CallAddMilestone ==
    /\ nextId <= MaxIds
    /\ \E a \in ProjectsNamed :
          LET st == addMilestone(MState, a[1], randomUUID(nextId))
          IN /\ Returned(st, "addMilestone", a)
             /\ nextId' = IF st.result = "null" THEN nextId ELSE nextId + 1
    /\ UNCHANGED <<clock, built>>

\* crypto.randomUUID is called once the milestone is found (line 532).
CallAddTask ==
    /\ nextId <= MaxIds
    /\ \E a \in ProjectsNamed \cup MilestonesNamed :
          LET args == <<a[1], IF Len(a) > 1 THEN a[2] ELSE MissingId>>
              st == addTask(MState, args[1], args[2], randomUUID(nextId),
                            DefaultEstimatedPoints)
          IN /\ Returned(st, "addTask", args)
             /\ nextId' = IF st.result = "ok" THEN nextId + 1 ELSE nextId
    /\ UNCHANGED <<clock, built>>

CallUpdateTaskStatus ==
    /\ \E a \in ProjectsNamed \cup MilestonesNamed \cup TasksNamed, status \in Status :
          LET args == <<a[1], IF Len(a) > 1 THEN a[2] ELSE MissingId,
                        IF Len(a) > 2 THEN a[3] ELSE MissingId>>
          IN Returned(updateTaskStatus(MState, args[1], args[2], args[3], status),
                      "updateTaskStatus", args)
    /\ UNCHANGED <<nextId, clock, built>>

CallUpdateMilestoneStatus ==
    /\ \E a \in ProjectsNamed \cup MilestonesNamed :
          LET args == <<a[1], IF Len(a) > 1 THEN a[2] ELSE MissingId>>
          IN Returned(updateMilestoneStatus(MState, args[1], args[2]),
                      "updateMilestoneStatus", args)
    /\ UNCHANGED <<nextId, clock, built>>

CallUpdateProjectStatus ==
    /\ \E a \in ProjectsNamed :
          Returned(updateProjectStatus(MState, a[1]),
                   "updateProjectStatus", a)
    /\ UNCHANGED <<nextId, clock, built>>

CallUpdateStatistics ==
    /\ Len(emitted) < MaxEmitted
    /\ Returned(updateStatistics(MState), "updateStatistics", <<>>)
    /\ UNCHANGED <<nextId, clock, built>>

\* storage.deleteProject(projectId), for an id the storage knows or not.
CallDeleteProject ==
    /\ \E a \in ProjectsNamed \cup {<<p.projectId>> : p \in projectMap} :
          Returned(deleteProject(MState, a[1]), "deleteProject", a)
    /\ UNCHANGED <<nextId, clock, built>>

\* storage.addProject(project) called with a ProjectDetails object.
StorageAddProject(project) ==
    /\ Len(progressData.projects) <= MaxIds
    /\ project.projectId \notin Elements(progressData.projectIds)
    /\ Returned(addProject(MState, project), "storage.addProject",
                <<project.projectId>>)
    /\ UNCHANGED <<nextId, clock, built>>

\* storage.addMilestone(milestone).
StorageAddMilestone(milestone) ==
    /\ Returned(storageAddMilestone(MState, milestone), "storage.addMilestone",
                <<milestone.milestoneId>>)
    /\ UNCHANGED <<nextId, clock, built>>

\* Time passes.
Tick ==
    /\ clock < MaxClock
    /\ clock' = clock + 1
    /\ UNCHANGED <<progressData, projectMap, milestoneMap, taskMap, emitted,
                   outcome, nextId, built, progressFile, saving, saveErrors,
                   held>>

\* createInitialState(): the empty AppState; lastUpdated is
\* new Date().toISOString().
createInitialState(now) ==
    [projects |-> [projects |-> {}, projectHistory |-> {}],
     milestones |-> [milestones |-> {}, milestoneHistory |-> {}],
     tasks |-> [tasks |-> {}, taskHistory |-> {}],
     relations |-> [projectToMilestones |-> {}, milestoneToTasks |-> {},
                    taskDependencies |-> {}, milestoneDependencies |-> {}],
     statistics |-> [totalTasks |-> 0, completedTasks |-> 0, totalPoints |-> 0,
                     earnedPoints |-> 0, averagePointsPerHour |-> 0,
                     taskCompletionTimes |-> {}, taskEarnedPoints |-> {},
                     taskStartTimes |-> {}, taskEndTimes |-> {}],
     lastUpdated |-> now,
     version |-> 1]

\* The state a replay starts from is built.
CallCreateInitialState ==
    /\ Len(built) < MaxBuilds
    /\ built' = Append(built, createInitialState(clock))
    /\ UNCHANGED <<progressData, projectMap, milestoneMap, taskMap, emitted,
                   outcome, nextId, clock, progressFile, saving, saveErrors,
                   held>>

\* JSON.stringify(this.progressData, null, 2): a number that is not finite
\* is written as null.
JsonNull == Number(0, 0)
JSONstringifyProgress(pd) ==
    [pd EXCEPT !.statistics.averagePointsPerHour =
                   IF @.den = 0 THEN JsonNull ELSE @]

RemoveAt(s, i) == SubSeq(s, 1, i - 1) \o SubSeq(s, i + 1, Len(s))

\* A save in flight comes back from its await of Deno.stat (and of
\* Deno.mkdir when the directory was missing): the text is made of the data
\* the storage holds now and the write begins; or the stat failed, and the
\* catch of save logs the error and the call ends.
SaveStatDone ==
    /\ \E i \in 1..Len(saving), ok \in BOOLEAN :
          /\ saving[i].pc = "stat"
          /\ IF ok
             THEN /\ saving' = [saving EXCEPT
                                  ![i] = SaveAtWrite(JSONstringifyProgress(progressData))]
                  /\ saveErrors' = saveErrors
             ELSE /\ saving' = RemoveAt(saving, i)
                  /\ saveErrors' = saveErrors + 1
    /\ outcome' = [NoOutcome EXCEPT !.op = "save.stat"]
    /\ UNCHANGED <<progressData, projectMap, milestoneMap, taskMap, emitted,
                   nextId, clock, built, progressFile, held>>

\* Deno.writeTextFile of a save in flight ends: the file holds the text, or
\* the write failed, and the catch of save logs the error; either way the
\* promise of save resolves, and nobody awaits it.
SaveWriteDone ==
    /\ \E i \in 1..Len(saving), ok \in BOOLEAN :
          /\ saving[i].pc = "write"
          /\ saving' = RemoveAt(saving, i)
          /\ IF ok
             THEN /\ progressFile' = [exists |-> TRUE, text |-> saving[i].text]
                  /\ saveErrors' = saveErrors
             ELSE /\ progressFile' = progressFile
                  /\ saveErrors' = saveErrors + 1
    /\ outcome' = [NoOutcome EXCEPT !.op = "save.write"]
    /\ UNCHANGED <<progressData, projectMap, milestoneMap, taskMap, emitted,
                   nextId, clock, built, held>>

\* ProgressManager.getProgressData: what storage.getProgressData returns.
CallGetProgressData ==
    /\ Returned(getProgressData(MState), "getProgressData", <<>>)
    /\ UNCHANGED <<nextId, clock, built>>

\* The caller of getProgressData assigns to the object it was given
\* (data.projects = []): the object is the one the storage holds.
MutateReturnedData ==
    /\ held.progressData
    /\ progressData.projects # <<>>
    /\ progressData' = [progressData EXCEPT !.projects = <<>>]
    /\ outcome' = [NoOutcome EXCEPT !.op = "caller.mutate"]
    /\ UNCHANGED <<projectMap, milestoneMap, taskMap, emitted, nextId, clock,
                   built, progressFile, saving, saveErrors, held>>

\* createStateSnapshot(state): JSON.parse(JSON.stringify(state)). Every
\* value of an AppState is a string, a finite number or an object of such,
\* so the text parses to an equal value, in objects made by the parse:
\* shares names the parts of the result that are objects of state.
createStateSnapshot(state) == [value |-> state, shares |-> {}]

CallCreateStateSnapshot ==
    /\ \E i \in 1..Len(built) :
          held' = [held EXCEPT !.snapshot = <<createStateSnapshot(built[i])>>,
                               !.of = i]
    /\ outcome' = [NoOutcome EXCEPT !.op = "createStateSnapshot"]
    /\ UNCHANGED <<progressData, projectMap, milestoneMap, taskMap, emitted,
                   nextId, clock, built, progressFile, saving, saveErrors>>

\* The holder of a snapshot assigns to it (snapshot.statistics.totalTasks =
\* 1): a part the snapshot shares with the state it was made of changes in
\* that state too.
MutateSnapshot ==
    /\ held.snapshot # <<>>
    /\ held.snapshot[1].value.statistics.totalTasks = 0
    /\ held' = [held EXCEPT !.snapshot[1].value.statistics.totalTasks = 1]
    /\ built' = IF "statistics" \in held.snapshot[1].shares
                THEN [built EXCEPT ![held.of].statistics.totalTasks = 1]
                ELSE built
    /\ outcome' = [NoOutcome EXCEPT !.op = "caller.mutate"]
    /\ UNCHANGED <<progressData, projectMap, milestoneMap, taskMap, emitted,
                   nextId, clock, progressFile, saving, saveErrors>>

\* createTaskDependencyAddedEvent(taskId, dependsOnTaskId) and
\* createMilestoneDependencyAddedEvent(milestoneId, dependsOnMilestoneId):
\* createEvent with the type and the two ids as payload.
createTaskDependencyAddedEvent(id, now, taskId, dependsOnTaskId) ==
    createEvent(id, "task_dependency_added", now,
                ("taskId" :> taskId) @@ ("dependsOnTaskId" :> dependsOnTaskId))

createMilestoneDependencyAddedEvent(id, now, milestoneId, dependsOnMilestoneId) ==
    createEvent(id, "milestone_dependency_added", now,
                ("milestoneId" :> milestoneId)
                   @@ ("dependsOnMilestoneId" :> dependsOnMilestoneId))

\* createTaskTimeLoggedEvent(taskId, timeMinutes, description): createEvent
\* with taskId, timeMinutes and description as payload; description is
\* undefined when not given.
createTaskTimeLoggedEvent(id, now, taskId, timeMinutes, description) ==
    createEvent(id, "task_time_logged", now,
                ("taskId" :> taskId) @@ ("timeMinutes" :> timeMinutes)
                   @@ ("description" :> description))

\* The id crypto.randomUUID gives an event: one the log does not hold.
EventId(log) == "u" \o ToString(Len(log) + 1)

DependencyTasks == {"T1", "T2", "T3"}
DependencyMilestones == {"M1", "M2"}

\* A caller records a task dependency: the event is created and saved to
\* the InMemoryEventStore.
AddTaskDependency ==
    /\ Len(memEvents) < MaxLog
    /\ \E t \in DependencyTasks, d \in DependencyTasks :
          memEvents' = saveEvent(memEvents,
                                 createTaskDependencyAddedEvent(EventId(memEvents),
                                                                clock, t, d))
    /\ memRet' = NoResult

AddMilestoneDependency ==
    /\ Len(memEvents) < MaxLog
    /\ \E m \in DependencyMilestones, d \in DependencyMilestones :
          memEvents' = saveEvent(memEvents,
                                 createMilestoneDependencyAddedEvent(
                                     EventId(memEvents), clock, m, d))
    /\ memRet' = NoResult

\* A caller logs time on a task: the event is created and saved to the
\* InMemoryEventStore.
LogTaskTime ==
    /\ Len(memEvents) < MaxLog
    /\ \E t \in DependencyTasks, description \in {Undefined, "review"} :
          memEvents' = saveEvent(memEvents,
                                 createTaskTimeLoggedEvent(EventId(memEvents), clock,
                                                           t, "30", description))
    /\ memRet' = NoResult

\* The rule a composite status is to follow, over the statuses of the
\* children: Completed when there is a child and all are Completed, else
\* InProgress when one is, else Blocked when one is, else NotStarted.
PrecedenceRule(children) ==
    IF Len(children) > 0 /\ \A i \in 1..Len(children) : children[i] = COMPLETED
    THEN COMPLETED
    ELSE IF \E i \in 1..Len(children) : children[i] = IN_PROGRESS THEN IN_PROGRESS
    ELSE IF \E i \in 1..Len(children) : children[i] = BLOCKED THEN BLOCKED
    ELSE NOT_STARTED

TaskStatuses(m) == [i \in 1..Len(m.tasks) |-> m.tasks[i].status]
MilestoneStatuses(p) == [i \in 1..Len(p.milestones) |-> p.milestones[i].milestoneStatus]

\* ---------------------------------------------------------- progress data
Vectors(S, n) == UNION {[1..k -> S] : k \in 0..n}

\* Progress data holding these projects, its statistics as updateStatistics
\* computes them.
DataWith(projects) ==
    [isNull |-> FALSE, projects |-> projects,
     projectIds |-> [i \in 1..Len(projects) |-> projects[i].projectId],
     statistics |-> computeStatistics(projects, EmptyStatistics)]

DataOf(project) == DataWith(<<project>>)

\* A task in this status as updateTaskStatus calls along the recognized
\* transitions leave it: started at 0, completed at 1.
TaskInStatus(taskId, status) ==
    Task(taskId, status, DefaultEstimatedPoints,
         IF status = COMPLETED THEN DefaultEstimatedPoints ELSE NoValue,
         IF status = NOT_STARTED THEN NoValue ELSE 0,
         IF status = COMPLETED THEN 1 ELSE NoValue)

TasksWith(statuses, base) ==
    [i \in 1..Len(statuses) |-> TaskInStatus(Id("task", base + i), statuses[i])]

\* Data whose composite statuses follow the rule: one project of up to
\* MaxMilestones milestones of up to MaxTasks tasks each.
WellFormedData ==
    {DataOf(LET milestones ==
                    [k \in 1..Len(vv) |->
                        Milestone(Id("milestone", k), PrecedenceRule(vv[k]),
                                  TasksWith(vv[k], (k - 1) * MaxTasks))]
            IN Project(Id("project", 1),
                       PrecedenceRule([k \in 1..Len(vv) |-> PrecedenceRule(vv[k])]),
                       milestones)) :
        vv \in Vectors(Vectors(Status, MaxTasks), MaxMilestones)}

\* Data as a status update finds it, the stored composite statuses being
\* any: a milestone over every vector of task statuses, and a project over
\* every vector of milestone statuses, up to MaxChildren children.
CascadeData ==
    {DataOf(Project(Id("project", 1), NOT_STARTED,
                    <<Milestone(Id("milestone", 1), ms, TasksWith(v, 0))>>)) :
        ms \in Status, v \in Vectors(Status, MaxChildren)}
    \cup
    {DataOf(Project(Id("project", 1), ps,
                    [k \in 1..Len(w) |-> Milestone(Id("milestone", k), w[k], <<>>)])) :
        ps \in Status, w \in Vectors(Status, MaxChildren)}

\* The shapes of a task handed in for the statistics: status, estimated and
\* actual points, start and end time.
TaskShapes ==
    {<<COMPLETED, 2, NoValue, 0, 1>>,
     <<COMPLETED, 3, NoValue, 0, 2>>,
     <<COMPLETED, 5, NoValue, NoValue, NoValue>>,
     <<COMPLETED, 5, 0, 1, 1>>,
     <<COMPLETED, 2, 1, 0, 2>>,
     <<COMPLETED, 3, NoValue, 2, 1>>,
     <<IN_PROGRESS, 3, NoValue, 0, NoValue>>,
     <<NOT_STARTED, 1, NoValue, NoValue, NoValue>>}

TasksShaped(v, base) ==
    [i \in 1..Len(v) |->
        Task(Id("task", base + i), v[i][1], v[i][2], v[i][3], v[i][4], v[i][5])]

\* Data whose statistics were never updated: up to MaxChildren tasks in one
\* milestone, or the first of them in one project and the others in a
\* second.
StatisticsData ==
    {[DataOf(Project(Id("project", 1), NOT_STARTED,
                     <<Milestone(Id("milestone", 1), NOT_STARTED,
                                 TasksShaped(v, 0))>>))
        EXCEPT !.statistics = EmptyStatistics] :
        v \in Vectors(TaskShapes, MaxChildren)}
    \cup
    {[DataWith(<<Project(Id("project", 1), NOT_STARTED,
                         <<Milestone(Id("milestone", 1), NOT_STARTED,
                                     TasksShaped(<<v[1]>>, 0))>>),
                 Project(Id("project", 2), NOT_STARTED,
                         <<Milestone(Id("milestone", 2), NOT_STARTED,
                                     TasksShaped(Tail(v), 1))>>)>>)
        EXCEPT !.statistics = EmptyStatistics] :
        v \in Vectors(TaskShapes, MaxChildren) \ {<<>>}}

\* The objects a caller hands to the storage directly.
DetailsPool ==
    {ProjectDetails(Id("project", n), NOT_STARTED, ids) :
        n \in 1..2,
        ids \in {<<>>, <<Id("milestone", 1)>>,
                 <<Id("milestone", 1), Id("milestone", 2)>>}}

MilestonePool ==
    {Milestone(Id("milestone", k), NOT_STARTED, tasks) :
        k \in 1..2,
        tasks \in {<<>>, <<TaskInStatus(Id("task", 1), NOT_STARTED)>>}}

\* ------------------------------------------------------------------ timer
MaxCycle == 2
MaxMinutes == 4

\* timer.workDuration and timer.restDuration of the default configuration.
workDuration == 25
restDuration == 5

\* enum TimerState and enum TimerEventType.
IDLE == "IDLE"
WORKING == "WORKING"
RESTING == "RESTING"
PAUSED == "PAUSED"
START == "timer:start"
TICK == "timer:tick"
PAUSE == "timer:pause"
RESUME == "timer:resume"
COMPLETE == "timer:complete"
RESET == "timer:reset"

VARIABLES
    timer,        \* PomodoroTimer: [state, remaining, elapsed, cycle], in minutes
    timerId,      \* the interval of startTimer and what its callback closes over,
                  \* with the number of intervals set and not cleared (live)
    timerOutcome  \* the last call: [op, events, before, pausedFrom]

timerVars == <<timer, timerId, timerOutcome>>

\* timerId is undefined.
NoInterval ==
    [active |-> FALSE, initialRemaining |-> 0, initialElapsed |-> 0, seen |-> 0,
     live |-> 0]

\* The field initializers of PomodoroTimer.
NewTimer == [state |-> IDLE, remaining |-> 0, elapsed |-> 0, cycle |-> 1]

\* The timer as its methods pass it on, with what they emit.
TState == [timer |-> timer, timerId |-> timerId, events |-> <<>>]

\* A TimerEventData object; a property it does not have is NoValue.
TimerEventData(type, remaining, elapsed, cycle) ==
    [type |-> type, remaining |-> remaining, elapsed |-> elapsed, cycle |-> cycle]

TimerEmit(t, event, data) ==
    [t EXCEPT !.events = Append(@, [event |-> event, data |-> data])]

\* startTimer: an interval there is is cleared and a new one set, its
\* callback closing over Date.now(), this.remaining and this.elapsed.
\* clearInterval(this.timerId) and this.timerId = undefined.
clearInterval(t) ==
    [t EXCEPT !.timerId = [NoInterval EXCEPT !.live = IF t.timerId.active
                                                     THEN t.timerId.live - 1
                                                     ELSE t.timerId.live]]

\* startTimer that sets its interval without clearing the one there is.
startTimerKeepingInterval(t) ==
    [t EXCEPT !.timerId = [active |-> TRUE,
                           initialRemaining |-> t.timer.remaining,
                           initialElapsed |-> t.timer.elapsed,
                           seen |-> 0,
                           live |-> t.timerId.live + 1]]

startTimer(t) ==
    LET t1 == IF t.timerId.active THEN clearInterval(t) ELSE t
    IN [t1 EXCEPT !.timerId = [active |-> TRUE,
                               initialRemaining |-> t.timer.remaining,
                               initialElapsed |-> t.timer.elapsed,
                               seen |-> 0,
                               live |-> t1.timerId.live + 1]]

startWork(t) ==
    LET t1 == startTimer([t EXCEPT !.timer.state = WORKING,
                                   !.timer.remaining = 4,
                                   !.timer.elapsed = 0])
    IN TimerEmit(t1, START,
                 TimerEventData(WORKING, t1.timer.remaining, NoValue,
                                t1.timer.cycle))

\* startRest: this.remaining is not assigned.
startRest(t) ==
    LET t1 == startTimer([t EXCEPT !.timer.state = RESTING,
                                   !.timer.elapsed = 0])
    IN TimerEmit(t1, START,
                 TimerEventData(RESTING, t1.timer.remaining, NoValue,
                                t1.timer.cycle))

pause(t) ==
    IF t.timer.state # WORKING /\ t.timer.state # RESTING THEN t
    ELSE LET t1 == [clearInterval(t) EXCEPT !.timer.state = PAUSED]
         IN TimerEmit(t1, PAUSE,
                      TimerEventData(t1.timer.state, t1.timer.remaining,
                                     t1.timer.elapsed, t1.timer.cycle))

\* resume: the state is picked by the remaining minutes alone.
resume(t) ==
    IF t.timer.state # PAUSED THEN t
    ELSE LET t1 == startTimer([t EXCEPT
                                 !.timer.state = IF t.timer.remaining = 20
                                                 THEN WORKING ELSE RESTING])
         IN TimerEmit(t1, RESUME,
                      TimerEventData(t1.timer.state, t1.timer.remaining,
                                     t1.timer.elapsed, t1.timer.cycle))

\* reset that leaves the cycle at 1.
resetWithCycle(t) ==
    LET t1 == [clearInterval(t) EXCEPT !.timer.state = IDLE,
                                       !.timer.remaining = 0,
                                       !.timer.elapsed = 0,
                                       !.timer.cycle = 1]
    IN TimerEmit(t1, RESET,
                 TimerEventData(WORKING, NoValue, NoValue, t1.timer.cycle))

\* reset: the RESET event carries type WORKING.
reset(t) ==
    LET t1 == [clearInterval(t) EXCEPT !.timer.state = IDLE,
                                       !.timer.remaining = 0,
                                       !.timer.elapsed = 0]
    IN TimerEmit(t1, RESET,
                 TimerEventData(WORKING, NoValue, NoValue, t1.timer.cycle))

\* The callback of the interval without the branch that completes a phase.
tickWithoutCompletion(t, minutes) ==
    LET remaining == IF t.timerId.initialRemaining - minutes > 0
                     THEN t.timerId.initialRemaining - minutes ELSE 0
        elapsed == t.timerId.initialElapsed + minutes
        phase == IF t.timer.state = WORKING THEN WORKING ELSE RESTING
        t1 == [t EXCEPT !.timer.elapsed = elapsed,
                        !.timer.remaining = remaining,
                        !.timerId.seen = minutes]
    IN TimerEmit(t1, TICK,
                 TimerEventData(phase, remaining, elapsed, t.timer.cycle))

\* The callback of the interval, run when Date.now() is minutes whole
\* minutes after startTimer was called.
tick(t, minutes) ==
    LET remaining == IF t.timerId.initialRemaining - minutes > 0
                     THEN t.timerId.initialRemaining - minutes ELSE 0
        elapsed == t.timerId.initialElapsed + minutes
        phase == IF t.timer.state = WORKING THEN WORKING ELSE RESTING
        t1 == [t EXCEPT !.timer.elapsed = elapsed,
                        !.timer.remaining = remaining,
                        !.timerId.seen = minutes]
        t2 == TimerEmit(t1, TICK,
                        TimerEventData(phase, remaining, elapsed, t.timer.cycle))
    IN IF remaining # 0 THEN t2
       ELSE LET t3 == TimerEmit(clearInterval(t2), COMPLETE,
                                TimerEventData(phase, NoValue, NoValue,
                                               t.timer.cycle))
            IN IF t.timer.state = WORKING
               THEN startRest([t3 EXCEPT !.timer.cycle = @ + 1])
               ELSE [t3 EXCEPT !.timer.state = IDLE]

NoTimerCall ==
    [op |-> "none", events |-> <<>>, before |-> NewTimer, pausedFrom |-> IDLE]

\* The call returns: the timer is as the method left it; what it emitted,
\* the state it found, and the state the last effective pause found, are
\* kept.
TimerReturned(t, op) ==
    /\ timer' = t.timer
    /\ timerId' = t.timerId
    /\ timerOutcome' =
          [op |-> op, events |-> t.events, before |-> timer,
           pausedFrom |-> IF op = "pause" /\ t.events # <<>> THEN timer.state
                          ELSE timerOutcome.pausedFrom]

CallStartWork ==
    /\ timer.cycle <= MaxCycle
    /\ TimerReturned(startWork(TState), "startWork")

CallStartRest == TimerReturned(startRest(TState), "startRest")
CallPause == TimerReturned(pause(TState), "pause")
CallResume == TimerReturned(resume(TState), "resume")
CallReset == TimerReturned(reset(TState), "reset")

\* The interval fires; Date.now() does not go back.
IntervalFires ==
    /\ timerId.active
    /\ \E minutes \in timerId.seen..MaxMinutes :
          TimerReturned(tick(TState, minutes), "tick")

TimerInit ==
    /\ timer = NewTimer
    /\ timerId = NoInterval
    /\ timerOutcome = NoTimerCall

\* ---------------------------------------------------------- event emitter
MaxHandlers == 3

\* The event names and the handler functions callers use. A handler records
\* its call; h2 also calls off for itself and h3 calls off for h1, both on
\* the event they were called for.
EventNames == {START, RESET}
Handlers == {"h1", "h2", "h3"}
Removes(h) == CASE h = "h2" -> "h2" [] h = "h3" -> "h1" [] OTHER -> ""

VARIABLES
    handlers,       \* EventEmitter.handlers: event name -> the array of handlers
    emitterOutcome, \* the last call: [op, event, handler, data, calls]
    merged          \* the last call of mergeConfig: [target, source, result, deep]

emitterVars == <<handlers, emitterOutcome>>

\* EventEmitter.on. A name the map has no key for and a name with an empty
\* array are both the empty sequence: emit and off do the same for both.
on(hs, event, handler) == [hs EXCEPT ![event] = Append(@, handler)]

\* EventEmitter.off: indexOf and splice(index, 1).
off(hs, event, handler) ==
    LET index == First({i \in 1..Len(hs[event]) : hs[event][i] = handler})
    IN IF index = 0 THEN hs
       ELSE [hs EXCEPT ![event] = RemoveAt(@, index)]

\* The handler runs: what it does to the registrations.
RunHandler(hs, event, h) ==
    IF Removes(h) = "" THEN hs ELSE off(hs, event, Removes(h))

RECURSIVE Dispatch(_, _, _, _, _)
\* The for-of loop of emit: the array iterator reads the array at its next
\* index and ends when the index is past the array's length as it is then.
Dispatch(hs, event, data, i, called) ==
    IF i > Len(hs[event]) THEN [handlers |-> hs, calls |-> called]
    ELSE LET h == hs[event][i]
         IN Dispatch(RunHandler(hs, event, h), event, data, i + 1,
                     Append(called, [handler |-> h, data |-> data]))

\* EventEmitter.emit.
emit(hs, event, data) == Dispatch(hs, event, data, 1, <<>>)

NoEmitterCall ==
    [op |-> "none", event |-> "", handler |-> "", data |-> "", calls |-> <<>>]

CallOn ==
    \E event \in EventNames, h \in Handlers :
       /\ Len(handlers[event]) < MaxHandlers
       /\ handlers' = on(handlers, event, h)
       /\ emitterOutcome' = [NoEmitterCall EXCEPT !.op = "on", !.event = event,
                                                  !.handler = h]

CallOff ==
    \E event \in EventNames, h \in Handlers :
       /\ handlers' = off(handlers, event, h)
       /\ emitterOutcome' = [NoEmitterCall EXCEPT !.op = "off", !.event = event,
                                                  !.handler = h]

CallEmit ==
    \E event \in EventNames, data \in {"d1", "d2"} :
       LET r == emit(handlers, event, data)
       IN /\ handlers' = r.handlers
          /\ emitterOutcome' = [NoEmitterCall EXCEPT !.op = "emit", !.event = event,
                                                     !.data = data, !.calls = r.calls]

EmitterInit ==
    /\ handlers = [event \in EventNames |-> <<>>]
    /\ emitterOutcome = NoEmitterCall

\* ----------------------------------------------------------- configuration
VARIABLES
    configData,    \* FileConfigManager.configData: section -> key -> value
    configFile,    \* the file at configPath: [exists, valid, json]
    configOutcome  \* the last call: [op, type, config, io, result]

configVars == <<configData, configFile, configOutcome>>

coreVars == <<timerVars, configVars, emitterVars, merged>>

\* A JavaScript value with what typeof gives for it.
Num(n) == [type |-> "number", num |-> n, str |-> ""]
Str(s) == [type |-> "string", num |-> 0, str |-> s]
Bool(b) == [type |-> "boolean", num |-> IF b THEN 1 ELSE 0, str |-> ""]
Undef == [type |-> "undefined", num |-> 0, str |-> ""]

DEFAULT_CONFIG ==
    [timer |-> [configType |-> Str("timer"),
                workDurationMinutes |-> Num(25),
                restDurationMinutes |-> Num(5),
                longRestDurationMinutes |-> Num(30),
                longRestIntervalCycle |-> Num(4)],
     ui |-> [configType |-> Str("ui"), language |-> Str("ja")],
     agent |-> [configType |-> Str("agent"), personality |-> Str("friendly"),
                encouragementFrequency |-> Str("medium")],
     api |-> [configType |-> Str("api")],
     progress |-> [configType |-> Str("progress"), pointsPerHour |-> Num(2),
                   showPredictions |-> Bool(TRUE)]]

\* mergeConfig(target, source): { ...target, ...source }.
mergeConfig(target, source) ==
    [k \in DOMAIN target \cup DOMAIN source |->
        IF k \in DOMAIN source THEN source[k] ELSE target[k]]

\* An object and an array as the value of a key.
Obj(f) == [type |-> "object", fields |-> f]
Arr(s) == [type |-> "array", items |-> s]

\* typeof v === "object" && v !== null.
IsObject(v) == v.type \in {"object", "array"}

\* The own enumerable properties of an object or an array: an array has its
\* indices as keys.
IndexKey == <<"0", "1", "2">>
Props(v) ==
    IF v.type = "object" THEN v.fields
    ELSE [k \in {IndexKey[i] : i \in 1..Len(v.items)} |->
             v.items[CHOOSE i \in 1..Len(v.items) : IndexKey[i] = k]]

RECURSIVE ConfigMergeConfig(_, _)
\* Config.mergeConfig: the spread of defaultConfig, and for every key of
\* userConfig the merge of the two values when both are objects (arrays
\* included, the result being a plain object), else the value of userConfig
\* unless it is undefined.
ConfigMergeConfig(defaultConfig, userConfig) ==
    LET Both(k) == /\ IsObject(userConfig[k])
                   /\ k \in DOMAIN defaultConfig
                   /\ IsObject(defaultConfig[k])
        Set(k) == Both(k) \/ userConfig[k].type # "undefined"
    IN [k \in DOMAIN defaultConfig \cup {key \in DOMAIN userConfig : Set(key)} |->
           IF k \in DOMAIN userConfig /\ Set(k)
           THEN IF Both(k)
                THEN Obj(ConfigMergeConfig(Props(defaultConfig[k]),
                                           Props(userConfig[k])))
                ELSE userConfig[k]
           ELSE defaultConfig[k]]

\* The objects callers merge: a target with a number, and a number, an
\* object or an array under b; a source that may lack a key, hold undefined
\* under it, or override it.
MergeTargets ==
    {[a |-> va, b |-> vb] :
        va \in {Num(0), Num(1)},
        vb \in {Num(2), Obj([x |-> Num(1), y |-> Num(2)]),
                Arr(<<Num(1), Num(2), Num(3)>>)}}

MergeSources ==
    LET as == {<<>>, [a |-> Undef], [a |-> Num(5)]}
        bs == {<<>>, [b |-> Undef], [b |-> Num(3)], [b |-> Obj([y |-> Num(3)])],
               [b |-> Obj([y |-> Num(3), x |-> Num(4)])],
               [b |-> Arr(<<Num(4), Num(5)>>)]}
    IN {[k \in DOMAIN sa \cup DOMAIN sb |-> IF k \in DOMAIN sa THEN sa[k] ELSE sb[k]] :
           sa \in as, sb \in bs}

\* mergeConfig of utils.ts and Config.mergeConfig are called with the same
\* arguments.
CallMergeConfig ==
    \E target \in MergeTargets, source \in MergeSources :
       merged' = [target |-> target, source |-> source,
                  result |-> mergeConfig(target, source),
                  deep |-> ConfigMergeConfig(target, source)]

PositiveNumber(config, key) ==
    key \in DOMAIN config => (config[key].type = "number" /\ config[key].num > 0)

validateTimerConfig(config) ==
    /\ PositiveNumber(config, "workDurationMinutes")
    /\ PositiveNumber(config, "restDurationMinutes")
    /\ PositiveNumber(config, "longRestDurationMinutes")
    /\ PositiveNumber(config, "longRestIntervalCycle")

validateUiConfig(config) ==
    "language" \in DOMAIN config =>
        (config.language.type = "string" /\ config.language.str \in {"ja", "en"})

validateAgentConfig(config) ==
    /\ "personality" \in DOMAIN config => config.personality.type = "string"
    /\ "encouragementFrequency" \in DOMAIN config =>
          (/\ config.encouragementFrequency.type = "string"
           /\ config.encouragementFrequency.str \in {"low", "medium", "high"})

validateApiConfig(config) ==
    ("openRouterApiKey" \in DOMAIN config
        /\ config.openRouterApiKey.type # "undefined")
    => config.openRouterApiKey.type = "string"

validateProgressConfig(config) ==
    /\ PositiveNumber(config, "pointsPerHour")
    /\ "showPredictions" \in DOMAIN config =>
          config.showPredictions.type = "boolean"

\* DefaultConfigValidator.validateConfig.
validateConfig(type, config) ==
    CASE type = "timer" -> validateTimerConfig(config)
      [] type = "ui" -> validateUiConfig(config)
      [] type = "agent" -> validateAgentConfig(config)
      [] type = "api" -> validateApiConfig(config)
      [] type = "progress" -> validateProgressConfig(config)
      [] OTHER -> FALSE

\* JSON.stringify(this.configData, null, 2) as JSON.parse reads it back:
\* a key whose value is undefined is not written.
JSONstringifyConfig(data) ==
    [section \in DOMAIN data |->
        [k \in {key \in DOMAIN data[section] :
                   data[section][key].type # "undefined"} |-> data[section][k]]]

NoConfigFile == [exists |-> FALSE, valid |-> FALSE, json |-> <<>>]
ConfigFileOf(json) == [exists |-> TRUE, valid |-> TRUE, json |-> json]
\* "{ this is not valid JSON }"
CorruptConfigFile == [exists |-> TRUE, valid |-> FALSE, json |-> <<>>]

\* The manager as its methods pass it on; result is "ok", or what the
\* promise rejects with.
CState == [data |-> configData, file |-> configFile, result |-> "ok"]

\* What may happen to the I/O of one call: nothing, or the first Deno.stat,
\* the Deno.readTextFile or the Deno.writeTextFile fails.
IoOutcomes == {"ok", "statError", "readError", "writeError"}

\* FileConfigManager.save: the directory is made when missing and the
\* serialized configData written; a failure is thrown on.
configSave(c, io) ==
    IF io \in {"statError", "writeError"} THEN [c EXCEPT !.result = "Error"]
    ELSE [c EXCEPT !.file = ConfigFileOf(JSONstringifyConfig(c.data))]

\* FileConfigManager.load.
configLoad(c, io) ==
    IF ~c.file.exists
    THEN IF io = "statError" THEN [c EXCEPT !.result = "Error"]
         ELSE configSave(c, IF io = "writeError" THEN io ELSE "ok")
    ELSE IF io \in {"statError", "readError"} THEN [c EXCEPT !.result = "Error"]
    ELSE IF c.file.valid
    THEN [c EXCEPT !.data = mergeConfig(DEFAULT_CONFIG, c.file.json)]
    ELSE [c EXCEPT !.data = DEFAULT_CONFIG]

\* updateConfig that does not ask the validator.
updateConfigUnvalidated(c, type, config, io) ==
    configSave([c EXCEPT !.data[type] = mergeConfig(c.data[type], config)], io)

\* FileConfigManager.updateConfig.
updateConfig(c, type, config, io) ==
    IF ~validateConfig(type, config) THEN [c EXCEPT !.result = "invalid"]
    ELSE configSave([c EXCEPT !.data[type] = mergeConfig(c.data[type], config)],
                    io)

ConfigReturned(c, op, type, config, io) ==
    /\ configData' = c.data
    /\ configFile' = c.file
    /\ configOutcome' = [op |-> op, type |-> type, config |-> config, io |-> io,
                         result |-> c.result]

NoConfigCall ==
    [op |-> "none", type |-> "", config |-> <<>>, io |-> "ok", result |-> "ok"]

CallConfigLoad ==
    \E io \in IoOutcomes :
       ConfigReturned(configLoad(CState, io), "load", "", <<>>, io)

CallConfigSave ==
    \E io \in IoOutcomes \ {"readError"} :
       ConfigReturned(configSave(CState, io), "save", "", <<>>, io)

\* The partial configurations callers give updateConfig.
ConfigUpdates ==
    {<<"timer", ("workDurationMinutes" :> Num(30))
                   @@ ("restDurationMinutes" :> Num(10))>>,
     <<"timer", "workDurationMinutes" :> Num(-10)>>,
     <<"timer", "longRestIntervalCycle" :> Num(0)>>,
     <<"timer", "restDurationMinutes" :> Str("10")>>,
     <<"ui", "language" :> Str("en")>>,
     <<"ui", "language" :> Str("fr")>>,
     <<"agent", "encouragementFrequency" :> Str("high")>>,
     <<"agent", "personality" :> Num(1)>>,
     <<"api", "openRouterApiKey" :> Undef>>,
     <<"api", "openRouterApiKey" :> Str("key")>>,
     <<"progress", "pointsPerHour" :> Num(3)>>,
     <<"progress", "showPredictions" :> Str("yes")>>}

CallUpdateConfig ==
    \E u \in ConfigUpdates, io \in IoOutcomes \ {"readError"} :
       ConfigReturned(updateConfig(CState, u[1], u[2], io), "updateConfig",
                      u[1], u[2], io)

\* The files a FileConfigManager may be constructed on.
ConfigFiles ==
    {NoConfigFile, ConfigFileOf(JSONstringifyConfig(DEFAULT_CONFIG)),
     ConfigFileOf([timer |-> [workDurationMinutes |-> Num(30)]]),
     CorruptConfigFile}

\* The constructor: configData is structuredClone(DEFAULT_CONFIG).
ConfigInit(files) ==
    /\ configData = DEFAULT_CONFIG
    /\ configFile \in files
    /\ configOutcome = NoConfigCall

\* No mergeConfig was called.
NoMerge == [target |-> <<>>, source |-> <<>>, result |-> <<>>, deep |-> <<>>]

\* The emitter as constructed, and mergeConfig not called.
UtilUnused == EmitterInit /\ merged = NoMerge

\* The timer and the configuration manager left as constructed.
CoreUnused == TimerInit /\ ConfigInit({NoConfigFile}) /\ UtilUnused

\* -------------------------------------------------------- specifications
vars == <<storeVars, memVars, mgrVars, coreVars>>

\* The log files a store may be constructed on.
CleanFiles == {NoFile, FileOf(<<>>), FileOf(<<JSONstringify(E1)>>)}
CorruptFiles == {FileOf(<<JSONstringify(E1), BadLine>>),
                 FileOf(<<BadLine, JSONstringify(E2)>>)}
ForeignFiles == {FileOf(<<JSONstringify(E1), JSONstringify(EUnknownKind)>>),
                 FileOf(<<JSONstringify(ELaterVersion)>>)}

StoreInit(files) ==
    /\ events = <<>>
    /\ initialized = FALSE
    /\ eventsFile \in files
    /\ dirExists \in {TRUE, eventsFile.exists}
    /\ calls = [c \in Slots |-> Idle]
    /\ ret = NoResult
    /\ acked = <<>>
    /\ rejected = NoRejected
    /\ hist = [cleared |-> FALSE, reopened |-> FALSE, loadFailed |-> FALSE,
               startEmpty |-> eventsFile.lines = <<>>]
    /\ memEvents = <<>>
    /\ memRet = NoResult

\* A ProgressStorage and a ProgressManager as constructed.
ManagerInit ==
    /\ progressData = NullData
    /\ projectMap = {}
    /\ milestoneMap = {}
    /\ taskMap = {}
    /\ emitted = <<>>
    /\ outcome = NoOutcome
    /\ nextId = 1
    /\ clock = 1
    /\ built = <<>>
    /\ progressFile = NoProgressFile
    /\ saving = <<>>
    /\ saveErrors = 0
    /\ held = NothingHeld

\* One caller that awaits each call before the next, driving a FileEventStore
\* and an InMemoryEventStore with the same calls and changing what the reads
\* return; no I/O fails and the file starts well-formed.
SeqInit ==
    /\ StoreInit(CleanFiles)
    /\ faults = MaxFaults
    /\ ManagerInit
    /\ CoreUnused

SeqNext ==
    \/ \E req \in SaveRequests \cup ReadRequests \cup {ClearRequest} :
          Call(1, req) /\ MemCall(req) /\ UNCHANGED <<mgrVars, coreVars>>
    \/ StatDirDone(1) /\ UNCHANGED <<memVars, mgrVars, coreVars>>
    \/ MkdirDone(1) /\ UNCHANGED <<memVars, mgrVars, coreVars>>
    \/ StatFileDone(1) /\ UNCHANGED <<memVars, mgrVars, coreVars>>
    \/ ReadDone(1) /\ UNCHANGED <<memVars, mgrVars, coreVars>>
    \/ LoadReturned(1) /\ UNCHANGED <<memVars, mgrVars, coreVars>>
    \/ AfterInit(1) /\ UNCHANGED <<memVars, mgrVars, coreVars>>
    \/ WriteDone(1) /\ UNCHANGED <<memVars, mgrVars, coreVars>>
    \/ ClearWriteDone(1) /\ UNCHANGED <<memVars, mgrVars, coreVars>>
    \/ MutateReturnedEvent /\ UNCHANGED <<memVars, mgrVars, coreVars>>
    \/ MutateReturnedArray /\ UNCHANGED <<memVars, mgrVars, coreVars>>
    \/ MemMutateReturnedEvent /\ UNCHANGED <<storeVars, mgrVars, coreVars>>
    \/ MemMutateReturnedArray /\ UNCHANGED <<storeVars, mgrVars, coreVars>>

SeqSpec == SeqInit /\ [][SeqNext]_vars

\* One caller that awaits each call, on a FileEventStore whose I/O may fail
\* and whose file may hold lines that do not parse; the store may be
\* constructed anew on the same directory.
FaultInit ==
    /\ StoreInit(CleanFiles \cup CorruptFiles \cup ForeignFiles)
    /\ faults = 0
    /\ ManagerInit
    /\ CoreUnused

FaultNext ==
    \/ \E req \in SaveRequests \cup {Request("getAllEvents", <<>>, "", 0, 0)} :
          Call(1, req) /\ UNCHANGED <<memVars, mgrVars, coreVars>>
    \/ StatDirDone(1) /\ UNCHANGED <<memVars, mgrVars, coreVars>>
    \/ MkdirDone(1) /\ UNCHANGED <<memVars, mgrVars, coreVars>>
    \/ StatFileDone(1) /\ UNCHANGED <<memVars, mgrVars, coreVars>>
    \/ ReadDone(1) /\ UNCHANGED <<memVars, mgrVars, coreVars>>
    \/ LoadReturned(1) /\ UNCHANGED <<memVars, mgrVars, coreVars>>
    \/ AfterInit(1) /\ UNCHANGED <<memVars, mgrVars, coreVars>>
    \/ WriteDone(1) /\ UNCHANGED <<memVars, mgrVars, coreVars>>
    \/ NewInstance /\ UNCHANGED <<memVars, mgrVars, coreVars>>

FaultSpec == FaultInit /\ [][FaultNext]_vars

\* Callers that do not await: up to MaxCalls calls of one FileEventStore
\* overlap; no I/O fails and the file starts well-formed.
ConcInit ==
    /\ StoreInit(CleanFiles)
    /\ faults = MaxFaults
    /\ ManagerInit
    /\ CoreUnused

ConcNext ==
    \/ \E c \in Slots :
          \E req \in SaveRequests \cup {Request("getAllEvents", <<>>, "", 0, 0)} :
             Call(c, req) /\ UNCHANGED <<memVars, mgrVars, coreVars>>
    \/ \E c \in Slots : StatDirDone(c) /\ UNCHANGED <<memVars, mgrVars, coreVars>>
    \/ \E c \in Slots : MkdirDone(c) /\ UNCHANGED <<memVars, mgrVars, coreVars>>
    \/ \E c \in Slots : StatFileDone(c) /\ UNCHANGED <<memVars, mgrVars, coreVars>>
    \/ \E c \in Slots : ReadDone(c) /\ UNCHANGED <<memVars, mgrVars, coreVars>>
    \/ \E c \in Slots : LoadReturned(c) /\ UNCHANGED <<memVars, mgrVars, coreVars>>
    \/ \E c \in Slots : AfterInit(c) /\ UNCHANGED <<memVars, mgrVars, coreVars>>
    \/ \E c \in Slots : WriteDone(c) /\ UNCHANGED <<memVars, mgrVars, coreVars>>

ConcSpec == ConcInit /\ [][ConcNext]_vars

\* The event stores left as constructed, no call made on them.
StoreUnused ==
    /\ StoreInit({NoFile})
    /\ dirExists = FALSE
    /\ faults = 0

\* The ProgressManager's commands on a storage that is empty or was handed
\* data whose composite statuses follow the rule.
ManagerSpecInit == StoreUnused /\ ManagerInit /\ CoreUnused

ManagerNext ==
    \/ /\ progressData.isNull
       /\ \E data \in WellFormedData :
             setProgressData(data) /\ UNCHANGED <<storeVars, memVars, coreVars>>
    \/ CallCreateProject /\ UNCHANGED <<storeVars, memVars, coreVars>>
    \/ CallAddMilestone /\ UNCHANGED <<storeVars, memVars, coreVars>>
    \/ CallAddTask /\ UNCHANGED <<storeVars, memVars, coreVars>>
    \/ CallUpdateTaskStatus /\ UNCHANGED <<storeVars, memVars, coreVars>>

ManagerSpec == ManagerSpecInit /\ [][ManagerNext]_vars

\* The two status updates of the cascade, each run on a storage that was
\* handed data with the project's milestones in it. (Reached from
\* updateTaskStatus they find the ProjectBase entry that its updateProject
\* call has put in place, and throw.)
CascadeInit == StoreUnused /\ ManagerInit /\ CoreUnused

CascadeNext ==
    \/ /\ progressData.isNull
       /\ \E data \in CascadeData :
             setProgressData(data) /\ UNCHANGED <<storeVars, memVars, coreVars>>
    \/ CallUpdateMilestoneStatus /\ UNCHANGED <<storeVars, memVars, coreVars>>
    \/ CallUpdateProjectStatus /\ UNCHANGED <<storeVars, memVars, coreVars>>

CascadeSpec == CascadeInit /\ [][CascadeNext]_vars

\* updateStatistics on a storage that is empty, holds created projects, or
\* was handed data with tasks in every state of completion.
StatisticsInit == StoreUnused /\ ManagerInit /\ CoreUnused

StatisticsNext ==
    \/ /\ progressData.isNull
       /\ \E data \in StatisticsData :
             setProgressData(data) /\ UNCHANGED <<storeVars, memVars, coreVars>>
    \/ CallCreateProject /\ UNCHANGED <<storeVars, memVars, coreVars>>
    \/ CallUpdateStatistics /\ UNCHANGED <<storeVars, memVars, coreVars>>

StatisticsSpec == StatisticsInit /\ [][StatisticsNext]_vars

\* The ProgressStorage called directly, next to a manager that creates
\* projects: projects and milestones are added and projects deleted.
StorageInit == StoreUnused /\ ManagerInit /\ CoreUnused

StorageNext ==
    \/ \E project \in DetailsPool :
          StorageAddProject(project) /\ UNCHANGED <<storeVars, memVars, coreVars>>
    \/ \E milestone \in MilestonePool :
          StorageAddMilestone(milestone) /\ UNCHANGED <<storeVars, memVars, coreVars>>
    \/ CallCreateProject /\ UNCHANGED <<storeVars, memVars, coreVars>>
    \/ CallDeleteProject /\ UNCHANGED <<storeVars, memVars, coreVars>>

StorageSpec == StorageInit /\ [][StorageNext]_vars

\* Dependency events created and saved to an InMemoryEventStore, and the
\* empty AppState built, while time passes.
ProjectionInit == StoreUnused /\ ManagerInit /\ CoreUnused

ProjectionNext ==
    \/ Tick /\ UNCHANGED <<storeVars, memVars, coreVars>>
    \/ AddTaskDependency
          /\ UNCHANGED <<storeVars, mgrVars, coreVars>>
    \/ AddMilestoneDependency
          /\ UNCHANGED <<storeVars, mgrVars, coreVars>>
    \/ CallCreateInitialState /\ UNCHANGED <<storeVars, memVars, coreVars>>

ProjectionSpec == ProjectionInit /\ [][ProjectionNext]_vars

\* The manager's commands on a storage that is empty or was handed a
\* project, with the saves they start running on: each await of a save may
\* end well or fail.
PersistData ==
    {DataOf(Project(Id("project", 1), NOT_STARTED,
                    <<Milestone(Id("milestone", 1), NOT_STARTED,
                                <<TaskInStatus(Id("task", 1), NOT_STARTED)>>)>>))}

PersistInit == StoreUnused /\ ManagerInit /\ CoreUnused

PersistNext ==
    \/ /\ progressData.isNull
       /\ \E data \in PersistData :
             setProgressData(data) /\ UNCHANGED <<storeVars, memVars, coreVars>>
    \/ CallCreateProject /\ UNCHANGED <<storeVars, memVars, coreVars>>
    \/ CallAddMilestone /\ UNCHANGED <<storeVars, memVars, coreVars>>
    \/ CallAddTask /\ UNCHANGED <<storeVars, memVars, coreVars>>
    \/ CallUpdateTaskStatus /\ UNCHANGED <<storeVars, memVars, coreVars>>
    \/ SaveStatDone /\ UNCHANGED <<storeVars, memVars, coreVars>>
    \/ SaveWriteDone /\ UNCHANGED <<storeVars, memVars, coreVars>>

PersistSpec == PersistInit /\ [][PersistNext]_vars

\* Readers: callers take the progress data and snapshots of built states and
\* assign to what they were given.
ReaderInit == StoreUnused /\ ManagerInit /\ CoreUnused

ReaderNext ==
    \/ /\ progressData.isNull
       /\ \E data \in PersistData :
             setProgressData(data) /\ UNCHANGED <<storeVars, memVars, coreVars>>
    \/ CallCreateProject /\ UNCHANGED <<storeVars, memVars, coreVars>>
    \/ CallGetProgressData /\ UNCHANGED <<storeVars, memVars, coreVars>>
    \/ MutateReturnedData /\ UNCHANGED <<storeVars, memVars, coreVars>>
    \/ Tick /\ UNCHANGED <<storeVars, memVars, coreVars>>
    \/ CallCreateInitialState /\ UNCHANGED <<storeVars, memVars, coreVars>>
    \/ CallCreateStateSnapshot /\ UNCHANGED <<storeVars, memVars, coreVars>>
    \/ MutateSnapshot /\ UNCHANGED <<storeVars, memVars, coreVars>>

ReaderSpec == ReaderInit /\ [][ReaderNext]_vars

\* The creation functions called and their events saved to an
\* InMemoryEventStore, while time passes.
FactoryInit == StoreUnused /\ ManagerInit /\ CoreUnused

FactoryNext ==
    \/ Tick /\ UNCHANGED <<storeVars, memVars, coreVars>>
    \/ AddTaskDependency
          /\ UNCHANGED <<storeVars, mgrVars, coreVars>>
    \/ AddMilestoneDependency
          /\ UNCHANGED <<storeVars, mgrVars, coreVars>>
    \/ LogTaskTime
          /\ UNCHANGED <<storeVars, mgrVars, coreVars>>

FactorySpec == FactoryInit /\ [][FactoryNext]_vars

\* A PomodoroTimer whose methods are called in any order while its interval
\* fires.
TimerSpecInit == StoreUnused /\ ManagerInit /\ CoreUnused

TimerNext ==
    \/ CallStartWork /\ UNCHANGED <<storeVars, memVars, mgrVars, configVars, emitterVars, merged>>
    \/ CallStartRest /\ UNCHANGED <<storeVars, memVars, mgrVars, configVars, emitterVars, merged>>
    \/ CallPause /\ UNCHANGED <<storeVars, memVars, mgrVars, configVars, emitterVars, merged>>
    \/ CallResume /\ UNCHANGED <<storeVars, memVars, mgrVars, configVars, emitterVars, merged>>
    \/ CallReset /\ UNCHANGED <<storeVars, memVars, mgrVars, configVars, emitterVars, merged>>
    \/ IntervalFires /\ UNCHANGED <<storeVars, memVars, mgrVars, configVars, emitterVars, merged>>

TimerSpec == TimerSpecInit /\ [][TimerNext]_vars

\* A FileConfigManager constructed on a path where there is no file, a saved
\* configuration, a partial one or a file that is not JSON; one caller
\* awaits each call, and the I/O of a call may fail.
ConfigSpecInit ==
    StoreUnused /\ ManagerInit /\ TimerInit /\ ConfigInit(ConfigFiles) /\ UtilUnused

ConfigNext ==
    \/ CallConfigLoad /\ UNCHANGED <<storeVars, memVars, mgrVars, timerVars, emitterVars, merged>>
    \/ CallConfigSave /\ UNCHANGED <<storeVars, memVars, mgrVars, timerVars, emitterVars, merged>>
    \/ CallUpdateConfig /\ UNCHANGED <<storeVars, memVars, mgrVars, timerVars, emitterVars, merged>>

ConfigSpec == ConfigSpecInit /\ [][ConfigNext]_vars

\* An EventEmitter whose on, off and emit are called in any order with
\* handlers that record their calls, some of which unsubscribe a handler
\* when called.
EmitterSpecInit == StoreUnused /\ ManagerInit /\ CoreUnused

EmitterNext ==
    \/ CallOn /\ UNCHANGED <<storeVars, memVars, mgrVars, timerVars, configVars, merged>>
    \/ CallOff /\ UNCHANGED <<storeVars, memVars, mgrVars, timerVars, configVars, merged>>
    \/ CallEmit /\ UNCHANGED <<storeVars, memVars, mgrVars, timerVars, configVars, merged>>

EmitterSpec == EmitterSpecInit /\ [][EmitterNext]_vars

\* mergeConfig called on objects with numbers, nested objects, arrays and
\* undefined values.
MergeSpecInit == StoreUnused /\ ManagerInit /\ CoreUnused

MergeNext ==
    CallMergeConfig
       /\ UNCHANGED <<storeVars, memVars, mgrVars, timerVars, configVars, emitterVars>>

MergeSpec == MergeSpecInit /\ [][MergeNext]_vars

\* ----------------------------------------------------------------- claims
Held(projectId) == CHOOSE p \in HeldProjects : p.projectId = projectId

StoredStatusFollowsRule(w) ==
    LET p == Held(w.projectId)
    IN IF w.level = "milestone"
       THEN LET m == p.milestones[FindMilestone(p.milestones, w.id)]
            IN m.milestoneStatus = PrecedenceRule(TaskStatuses(m))
       ELSE p.projectStatus = PrecedenceRule(MilestoneStatuses(p))

\* C1: every composite status that updateMilestoneStatus or
\* updateProjectStatus has assigned is the precedence rule's value for the
\* statuses of the children: Completed if there is a child and all are
\* Completed, else InProgress if any is, else Blocked if any is, else
\* NotStarted.
CascadePrecedence ==
    \A k \in 1..Len(outcome.wrote) : StoredStatusFollowsRule(outcome.wrote[k])

\* updateMilestoneStatus has turned a milestone stored as Completed, with
\* tasks [Completed, Completed, InProgress], to InProgress.
CascadePrecedenceWitness ==
    /\ outcome.op = "updateMilestoneStatus"
    /\ Len(outcome.wrote) = 1
    /\ \E p \in HeldProjects : \E m \in MilestonesOf(p) :
          /\ TaskStatuses(m) = <<COMPLETED, COMPLETED, IN_PROGRESS>>
          /\ m.milestoneStatus = IN_PROGRESS
    /\ \E i \in 1..Len(emitted) :
          /\ emitted[i].type = MILESTONE_UPDATED
          /\ emitted[i].was = COMPLETED
          /\ emitted[i].now = IN_PROGRESS

RuleConsistent(p) ==
    /\ p.projectStatus = PrecedenceRule(MilestoneStatuses(p))
    /\ \A m \in MilestonesOf(p) : m.milestoneStatus = PrecedenceRule(TaskStatuses(m))

\* C2: after any sequence of createProject, addMilestone, addTask and
\* updateTaskStatus calls, the stored status of every milestone is the
\* precedence rule's value for its tasks' statuses and the stored status of
\* every project is the rule's value for its milestones' statuses.
CompositeStatusDerived == \A p \in HeldProjects : RuleConsistent(p)

\* C3: for both stores, after successful saveEvent and saveEvents calls and
\* no clear, on a log that started empty, getAllEvents returns exactly the
\* appended events, each once, in append order.
AppendReadRoundTrip ==
    /\ (/\ ret.op = "getAllEvents"
        /\ ret.pristine
        /\ Untampered(ret.vals)
        /\ hist.startEmpty
        /\ ~hist.cleared) => ret.vals = ret.seen
    /\ (/\ memRet.op = "getAllEvents"
        /\ memRet.pristine
        /\ Untampered(memRet.vals)
        /\ ~hist.cleared) => memRet.vals = memRet.seen

\* Both stores have returned [E1, E2, E3] from getAllEvents after
\* saveEvent(E1) and saveEvents([E2, E3]).
AppendReadRoundTripWitness ==
    /\ ret.op = "getAllEvents"
    /\ ret.pristine
    /\ hist.startEmpty
    /\ ~hist.cleared
    /\ ret.vals = <<E1, E2, E3>>
    /\ ret.seen = <<E1, E2, E3>>
    /\ memRet.op = "getAllEvents"
    /\ memRet.pristine
    /\ memRet.vals = <<E1, E2, E3>>

\* C4: when the file write of saveEvent or saveEvents has failed and the
\* call has rejected, a following getAllEvents returns the list the log
\* held before the failed call.
RollbackOnFailedAppend ==
    (rejected.active /\ ret.op = "getAllEvents") => ret.vals = rejected.pre

\* C5: once all overlapping calls on one FileEventStore have resolved, the
\* in-memory log holds every acknowledged event exactly once, in the order
\* of the lines of the log file (the log having started empty).
ConcurrentAppendsSerialized ==
    (AllIdle /\ hist.startEmpty) => JsonForm(events) = ValidEvents(eventsFile.lines)

OneBadLine(lines) ==
    Cardinality({i \in 1..Len(lines) : lines[i].kind = "bad"}) = 1

\* C6: when loadEvents has read a file in which exactly one line fails to
\* parse, the in-memory log holds the event of every valid line, in file
\* order.
CorruptLineIsolation ==
    \A c \in Slots :
       (calls[c].pc = "loaded" /\ OneBadLine(Lines(eventsFile)))
          => events = ValidEvents(Lines(eventsFile))

RECURSIVE IsSubsequence(_, _)
IsSubsequence(s, t) ==
    IF s = <<>> THEN TRUE
    ELSE IF t = <<>> THEN FALSE
    ELSE IF Head(s) = Head(t) THEN IsSubsequence(Tail(s), Tail(t))
    ELSE IsSubsequence(s, Tail(t))

\* C7: getAllEvents of a FileEventStore constructed anew on the same
\* directory, whose log started empty and whose file it has read without
\* an I/O failure, returns every event whose save call had resolved, in the
\* order they were appended.
AckImpliesDurability ==
    (/\ ret.op = "getAllEvents"
     /\ ret.pristine
     /\ hist.reopened
     /\ hist.startEmpty
     /\ ~hist.loadFailed)
       => IsSubsequence(JsonForm(ret.seen), JsonForm(ret.vals))

\* C8: every step of a saveEvent or saveEvents call leaves the log it found,
\* in memory and on file, as a prefix of the log it leaves.
AppendOnly ==
    [][(\E c \in Slots : calls[c].op \in SaveOps /\ calls'[c] # calls[c])
          => /\ IsPrefix(events, events')
             /\ IsPrefix(eventsFile.lines, eventsFile'.lines)]_vars

\* C9: a caller changing the array or an event object that a read returned
\* leaves the store's log, and so what a later read returns, as it was.
DefensiveCopies ==
    [][(\/ ret.pristine /\ ~ret'.pristine
        \/ memRet.pristine /\ ~memRet'.pristine)
          => (events' = events /\ memEvents' = memEvents)]_vars

DerivedTypes == {MILESTONE_UPDATED, MILESTONE_COMPLETED, PROJECT_UPDATED}

AllowedTransitions ==
    {<<NOT_STARTED, IN_PROGRESS>>, <<IN_PROGRESS, BLOCKED>>,
     <<BLOCKED, IN_PROGRESS>>, <<IN_PROGRESS, COMPLETED>>}

TaskStatusTypes == {TASK_STARTED, TASK_COMPLETED, TASK_UPDATED}

\* C11: updateTaskStatus changes a task's status, and emits the task's
\* event, only along NotStarted->InProgress, InProgress->Blocked,
\* Blocked->InProgress and InProgress->Completed; any other pair of old and
\* new status is rejected.
TaskTransitionTable ==
    \A i \in 1..Len(emitted) :
       emitted[i].type \in TaskStatusTypes
          => <<emitted[i].was, emitted[i].now>> \in AllowedTransitions

\* The tasks the storage holds, in the projects' milestones.
HeldTasks == UNION {UNION {TasksOf(m) : m \in MilestonesOf(p)} : p \in HeldProjects}

\* C12: every task whose status is InProgress, Blocked or Completed has its
\* startTime, and every Completed task has its endTime and an actualPoints
\* equal to its estimatedPoints.
TimestampStamping ==
    \A t \in HeldTasks :
       /\ t.status \in {IN_PROGRESS, BLOCKED, COMPLETED} => t.startTime # NoValue
       /\ t.status = COMPLETED => /\ t.endTime # NoValue
                                  /\ t.actualPoints = t.estimatedPoints

RECURSIVE SumOver(_, _)
\* The sum of the tasks' values under key.
SumOver(tasks, key) ==
    IF tasks = {} THEN 0
    ELSE LET t == CHOOSE x \in tasks : TRUE
         IN (CASE key = "estimated" -> t.estimatedPoints
               [] key = "earned" -> IF t.actualPoints # NoValue THEN t.actualPoints
                                    ELSE t.estimatedPoints
               [] key = "duration" -> t.endTime - t.startTime)
            + SumOver(tasks \ {t}, key)

CompletedOf(tasks) == {t \in tasks : t.status = COMPLETED}

\* The counts and sums the statistics are to hold for these tasks.
CountsFollow(stats, tasks) ==
    /\ stats.totalTasks = Cardinality(tasks)
    /\ stats.completedTasks = Cardinality(CompletedOf(tasks))
    /\ stats.totalPoints = SumOver(tasks, "estimated")
    /\ stats.earnedPoints = SumOver(CompletedOf(tasks), "earned")

\* C13: after updateStatistics, totalTasks is the number of tasks,
\* completedTasks the number of Completed tasks, totalPoints the sum of
\* estimatedPoints over all tasks, and earnedPoints the sum over Completed
\* tasks of actualPoints when it is set, 0 included, and of estimatedPoints
\* otherwise.
StatisticsValues ==
    (outcome.op = "updateStatistics" /\ outcome.result = "ok")
       => CountsFollow(progressData.statistics, HeldTasks)

\* C14: right after an updateTaskStatus call that has set a task Completed,
\* the stored statistics are the values computed from the tasks held, with
\* no updateStatistics call in between.
StatisticsFollowCompletion ==
    (/\ outcome.op = "updateTaskStatus"
     /\ outcome.result # "null"
     /\ \E t \in HeldTasks : t.taskId = outcome.args[3] /\ t.status = COMPLETED)
       => CountsFollow(progressData.statistics, HeldTasks)

NumberEquals(a, b) == a.num * b.den = b.num * a.den

TimedOf(tasks) ==
    {t \in CompletedOf(tasks) : t.startTime # NoValue /\ t.endTime # NoValue}

\* C15: averagePointsPerHour is the configured pointsPerHour when the
\* storage makes its empty data; an updateStatistics call sets it to the
\* earned points divided by the summed hours when some Completed task has
\* both times and the summed duration is above zero, and leaves it as it was
\* in every other case; it is never a division by zero.
AveragePointsPerHourGuard ==
    [][/\ (progressData.isNull /\ ~progressData'.isNull
              /\ outcome'.op # "setProgressData")
          => progressData'.statistics.averagePointsPerHour =
                Number(pointsPerHour, 1)
       /\ outcome'.op = "updateStatistics"
          => LET timed == TimedOf(HeldTasks)
                 ms == SumOver(timed, "duration")
                 was == progressData.statistics.averagePointsPerHour
                 now == progressData'.statistics.averagePointsPerHour
             IN /\ now.den # 0
                /\ IF outcome'.result = "ok" /\ timed # {} /\ ms > 0
                   THEN NumberEquals(now,
                           Number(progressData'.statistics.earnedPoints * MsPerHour,
                                  ms))
                   ELSE now = was]_vars

\* updateStatistics has run over one Completed task that started and ended
\* in the same millisecond, and the average is still the configured default.
AveragePointsPerHourGuardWitness ==
    /\ outcome.op = "updateStatistics"
    /\ outcome.result = "ok"
    /\ progressData.statistics.completedTasks = 1
    /\ \E t \in HeldTasks : /\ t.status = COMPLETED
                            /\ t.startTime # NoValue
                            /\ t.endTime = t.startTime
    /\ progressData.statistics.averagePointsPerHour = Number(pointsPerHour, 1)

\* C16: an addMilestone, addTask or updateTaskStatus call given an id that
\* names nothing returns null, changes no project, milestone, task or
\* statistic and emits no event.
RejectedCommandsNoEffect ==
    [][(/\ outcome'.op \in {"addMilestone", "addTask", "updateTaskStatus"}
        /\ MissingId \in Elements(outcome'.args))
          => /\ outcome'.result = "null"
             /\ emitted' = emitted
             /\ progressData'.projects = progressData.projects
             /\ progressData'.statistics = progressData.statistics
             /\ projectMap' = projectMap]_vars

\* The edges the dependency-added events of this type in the log record.
DependencyEdges(log, type, from, to) ==
    {<<log[i].payload[from], log[i].payload[to]>> :
        i \in {j \in 1..Len(log) : log[j].type = type}}

RECURSIVE ReachedFrom(_, _)
\* The nodes reached from these along the edges.
ReachedFrom(edges, nodes) ==
    LET next == nodes \cup {e[2] : e \in {x \in edges : x[1] \in nodes}}
    IN IF next = nodes THEN nodes ELSE ReachedFrom(edges, next)

Acyclic(edges) ==
    \A e \in edges : e[1] \notin ReachedFrom(edges, {e[2]})

\* C17: the task dependencies and the milestone dependencies the log
\* records have no cycle: a dependency that would close one is rejected and
\* adds no event.
CycleRejection ==
    /\ Acyclic(DependencyEdges(memEvents, "task_dependency_added",
                               "taskId", "dependsOnTaskId"))
    /\ Acyclic(DependencyEdges(memEvents, "milestone_dependency_added",
                               "milestoneId", "dependsOnMilestoneId"))

\* C18: the states built from the canonical empty state for the same log
\* are equal in every field, lastUpdated and version included, whenever
\* they are built.
DeterministicReplay ==
    \A i \in 1..Len(built) : \A j \in 1..Len(built) : built[i] = built[j]

\* C19: a log that loadEvents has loaded holds no record whose type is not
\* an EventType kind or whose version is not 1: such a record aborts the
\* load.
UnknownEventsFatal ==
    \A c \in Slots :
       calls[c].pc = "loaded"
          => \A i \in 1..Len(events) : /\ events[i].type \in EventType
                                       /\ events[i].version = 1

\* The ids of the milestones of the project under this id, and of their
\* tasks, as the storage's maps hold them.
MilestoneIdsUnder(projectId) ==
    UNION {Elements(p.milestoneIds) : p \in getProjectById(projectId)}
TaskIdsUnder(projectId) ==
    UNION {{t.taskId : t \in TasksOf(m)} :
              m \in UNION {getMilestoneById(id) : id \in MilestoneIdsUnder(projectId)}}

\* C20: after deleteProject(id) the project is in neither projectIds nor
\* the projects list, getProjectById and ProgressManager.getProject find
\* nothing under the id, getMilestoneById and getTaskById find none of its
\* milestones and tasks, and every other project is as it was.
DeleteRemovesProject ==
    [][outcome'.op = "deleteProject"
          => LET id == outcome'.args[1]
             IN /\ id \notin Elements(progressData'.projectIds)
                /\ FindProject(progressData'.projects, id) = 0
                /\ \A p \in projectMap' : p.projectId # id
                /\ \A m \in milestoneMap' : m.milestoneId \notin MilestoneIdsUnder(id)
                /\ \A t \in taskMap' : t.taskId \notin TaskIdsUnder(id)
                /\ {p \in projectMap' : p.projectId # id}
                      = {p \in projectMap : p.projectId # id}
                /\ SelectSeq(progressData'.projects, LAMBDA p : p.projectId # id)
                      = SelectSeq(progressData.projects, LAMBDA p : p.projectId # id)]_vars

\* What a load of the progress file would give: the text of the file, or
\* empty data when there is none.
Durable ==
    IF progressFile.exists THEN progressFile.text
    ELSE JSONstringifyProgress(createEmptyProgressData)

\* C21: when the write of the progress snapshot a command started fails,
\* the failure is surfaced to the caller of the command and the data in
\* memory keeps no change that is not in the file.
PersistenceFailureAborts ==
    [][((SaveStatDone \/ SaveWriteDone) /\ saveErrors' # saveErrors)
          => /\ outcome'.result = "PersistenceError"
             /\ JSONstringifyProgress(progressData') = Durable']_vars

\* C22: createStateSnapshot(s) returns a state equal to s that shares no
\* structure with it, and no assignment a caller makes to the progress data
\* or to a snapshot it was given changes the data the storage holds or the
\* state the snapshot was made of.
DeepCopyForReaders ==
    [][/\ CallCreateStateSnapshot
             => /\ held'.snapshot[1].value = built[held'.of]
                /\ held'.snapshot[1].shares = {}
       /\ (MutateReturnedData \/ MutateSnapshot)
             => (progressData' = progressData /\ built' = built)]_vars

IdFields ==
    {"projectId", "milestoneId", "taskId", "project.projectId",
     "milestone.milestoneId", "task.taskId", "dependsOnTaskId",
     "dependsOnMilestoneId"}

References(e, id) ==
    \E k \in DOMAIN e.payload \cap IdFields : e.payload[k] = id

\* C23: getEventsByEntityId(id) returns, in append order, exactly the events
\* whose payload carries id in a project, milestone or task id field,
\* dependsOnTaskId and dependsOnMilestoneId included.
EntityReadExact ==
    [][(AfterInit(1) /\ calls[1].op = "getEventsByEntityId")
          => ret'.vals = SelectSeq(events, LAMBDA e : References(e, calls[1].key))]_vars

\* The fields the payload type of an event kind declares as required.
RequiredPayload(type) ==
    CASE type = "task_dependency_added" -> {"taskId", "dependsOnTaskId"}
      [] type = "milestone_dependency_added" -> {"milestoneId", "dependsOnMilestoneId"}
      [] type = "task_time_logged" -> {"taskId", "timeMinutes", "timestamp"}
      [] OTHER -> {}

\* C24: every event a creation function built has an id no other created
\* event has, version 1, a type of the EventType enum, and a payload with
\* every field its kind requires (payload.timestamp for task_time_logged).
CreatedEventsWellFormed ==
    \A i \in 1..Len(memEvents) :
       /\ \A j \in 1..Len(memEvents) : i # j => memEvents[i].id # memEvents[j].id
       /\ memEvents[i].version = 1
       /\ memEvents[i].type \in EventType
       /\ RequiredPayload(memEvents[i].type) \subseteq DOMAIN memEvents[i].payload

\* C25: a new timer is IDLE with remaining 0, elapsed 0 and cycle 1; after
\* startWork it is WORKING with the work duration remaining and elapsed 0;
\* after startRest it is RESTING with the rest duration remaining.
TimerStart ==
    /\ timerOutcome.op = "none" => timer = NewTimer
    /\ timerOutcome.op = "startWork"
          => /\ timer.state = WORKING
             /\ timer.remaining = workDuration
             /\ timer.elapsed = 0
    /\ timerOutcome.op = "startRest"
          => /\ timer.state = RESTING
             /\ timer.remaining = restDuration

\* C26: pause moves the timer to PAUSED from WORKING and RESTING and does
\* nothing in IDLE and PAUSED; resume puts a PAUSED timer back into the
\* phase the pause found, and does nothing in any other state.
PauseResumeRoundTrip ==
    [][/\ CallPause
             => IF timer.state \in {WORKING, RESTING}
                THEN timer'.state = PAUSED
                ELSE timer' = timer /\ timerId' = timerId
       /\ CallResume
             => IF timer.state = PAUSED
                THEN timer'.state = timerOutcome.pausedFrom
                ELSE timer' = timer /\ timerId' = timerId]_vars

\* C27: from every state, reset leaves the timer IDLE with remaining 0 and
\* elapsed 0, no interval active, and the cycle number as it was.
ResetLeavesIdle ==
    [][CallReset
          => /\ timer'.state = IDLE
             /\ timer'.remaining = 0
             /\ timer'.elapsed = 0
             /\ ~timerId'.active
             /\ timer'.cycle = timer.cycle]_vars

\* A paused timer in its second cycle has been reset.
ResetLeavesIdleWitness ==
    /\ timerOutcome.op = "reset"
    /\ timerOutcome.before.state = PAUSED
    /\ timerOutcome.before.cycle > 1
    /\ timer.state = IDLE

KindOf(op) ==
    CASE op \in {"startWork", "startRest"} -> START
      [] op = "pause" -> PAUSE
      [] op = "resume" -> RESUME
      [] op = "reset" -> RESET

\* C28: an effective startWork, startRest, pause, resume or reset emits
\* exactly one event, of the kind of the call, carrying the state the timer
\* is in after the call; a pause or resume that does nothing emits nothing.
TimerNotifications ==
    LET o == timerOutcome
        effective ==
            \/ o.op \in {"startWork", "startRest", "reset"}
            \/ o.op = "pause" /\ o.before.state \in {WORKING, RESTING}
            \/ o.op = "resume" /\ o.before.state = PAUSED
    IN o.op \in {"startWork", "startRest", "pause", "resume", "reset"}
          => IF effective
             THEN /\ Len(o.events) = 1
                  /\ o.events[1].event = KindOf(o.op)
                  /\ o.events[1].data.type = timer.state
             ELSE o.events = <<>>

\* C29: a load that reads a file that is not JSON, its I/O working, does not
\* fail, leaves DEFAULT_CONFIG in memory, and leaves DEFAULT_CONFIG in the
\* file.
CorruptConfigRepaired ==
    [][(configOutcome'.op = "load" /\ configFile = CorruptConfigFile
           /\ configOutcome'.io = "ok")
          => /\ configOutcome'.result = "ok"
             /\ configData' = DEFAULT_CONFIG
             /\ configFile' = ConfigFileOf(JSONstringifyConfig(DEFAULT_CONFIG))]_vars

\* A timer duration that is not a number above zero.
BadDuration(type, config) ==
    /\ type = "timer"
    /\ \E k \in DOMAIN config : ~(config[k].type = "number" /\ config[k].num > 0)

\* C30: an updateConfig the validator rejects (a timer duration that is not
\* a number above zero, for one) rejects and leaves the configuration in
\* memory and the file as they were; a valid one changes the given fields of
\* the given section and nothing else, and once it has resolved the file
\* holds the configuration in memory.
UpdateConfigValidated ==
    [][configOutcome'.op = "updateConfig"
          => LET o == configOutcome'
             IN /\ BadDuration(o.type, o.config) => ~validateConfig(o.type, o.config)
                /\ IF ~validateConfig(o.type, o.config)
                   THEN /\ o.result = "invalid"
                        /\ configData' = configData
                        /\ configFile' = configFile
                   ELSE /\ \A section \in DOMAIN configData \ {o.type} :
                              configData'[section] = configData[section]
                        /\ DOMAIN configData'[o.type]
                              = DOMAIN configData[o.type] \cup DOMAIN o.config
                        /\ \A k \in DOMAIN configData[o.type] \ DOMAIN o.config :
                              configData'[o.type][k] = configData[o.type][k]
                        /\ \A k \in DOMAIN o.config :
                              configData'[o.type][k] = o.config[k]
                        /\ o.result = "ok"
                              => configFile'
                                    = ConfigFileOf(JSONstringifyConfig(configData'))]_vars

\* An update was rejected as invalid after a valid one had changed the
\* timer section, in memory and in the file.
UpdateConfigValidatedWitness ==
    /\ configOutcome.op = "updateConfig"
    /\ configOutcome.result = "invalid"
    /\ configData.timer.workDurationMinutes = Num(30)
    /\ configFile = ConfigFileOf(JSONstringifyConfig(configData))

\* How many registrations of the handler the array holds.
Registrations(s, h) == Cardinality({i \in 1..Len(s) : s[i] = h})

\* C33: emit(name, data) calls every handler registered for name when it is
\* called, in registration order, once per registration, with data, and no
\* handler of another name (none when the name has no handler); off(name, h)
\* removes exactly one registration of h for name, the first, and changes
\* nothing when h is not registered for name.
EmitterDispatch ==
    [][LET o == emitterOutcome'
       IN /\ o.op = "emit"
               => o.calls = [i \in 1..Len(handlers[o.event])
                                |-> [handler |-> handlers[o.event][i], data |-> o.data]]
          /\ o.op = "off"
               => /\ \A e \in EventNames \ {o.event} : handlers'[e] = handlers[e]
                  /\ IF Registrations(handlers[o.event], o.handler) = 0
                     THEN handlers' = handlers
                     ELSE /\ Len(handlers'[o.event]) = Len(handlers[o.event]) - 1
                          /\ Registrations(handlers'[o.event], o.handler)
                                = Registrations(handlers[o.event], o.handler) - 1
                          /\ \A h \in Handlers \ {o.handler} :
                                SelectSeq(handlers'[o.event], LAMBDA g : g = h)
                                   = SelectSeq(handlers[o.event], LAMBDA g : g = h)
                          /\ IsSubsequence(handlers'[o.event], handlers[o.event])]_vars

\* C36: in an emit during which handlers call off, every handler that was
\* registered when the emit started and none of whose registrations was
\* removed during it is called once per registration.
UnsubscribeDuringDispatch ==
    [][emitterOutcome'.op = "emit" /\ handlers' # handlers
          => \A h \in Handlers :
                LET before == Registrations(handlers[emitterOutcome'.event], h)
                    after == Registrations(handlers'[emitterOutcome'.event], h)
                IN after = before
                      => Registrations([i \in 1..Len(emitterOutcome'.calls)
                                           |-> emitterOutcome'.calls[i].handler], h)
                            = before]_vars

\* The event names of what the last call emitted, in order.
EmittedNames == [i \in 1..Len(timerOutcome.events) |-> timerOutcome.events[i].event]

\* C34: a tick that brings the remaining time of a WORKING timer to 0 emits
\* one COMPLETE, raises the cycle by exactly one and starts the rest phase
\* (state RESTING, a START event, an interval running); one that brings the
\* remaining time of a RESTING timer to 0 emits one COMPLETE and leaves the
\* timer IDLE with the cycle it had and no interval; a tick that leaves time
\* remaining completes nothing.
TimerCompletion ==
    timerOutcome.op = "tick"
       => LET b == timerOutcome.before
          IN IF timer.remaining # 0
             THEN /\ EmittedNames = <<TICK>>
                  /\ timer.state = b.state
                  /\ timer.cycle = b.cycle
             ELSE IF b.state = WORKING
                  THEN /\ EmittedNames = <<TICK, COMPLETE, START>>
                       /\ timerOutcome.events[2].data.type = WORKING
                       /\ timerOutcome.events[3].data.type = RESTING
                       /\ timer.cycle = b.cycle + 1
                       /\ timer.state = RESTING
                       /\ timerId.active
                  ELSE /\ EmittedNames = <<TICK, COMPLETE>>
                       /\ timerOutcome.events[2].data.type = RESTING
                       /\ timer.cycle = b.cycle
                       /\ timer.state = IDLE
                       /\ ~timerId.active

\* The work phase of the second cycle has completed: the timer rests in
\* cycle 3.
TimerCompletionWitness ==
    /\ timerOutcome.op = "tick"
    /\ timerOutcome.before.state = WORKING
    /\ timerOutcome.before.cycle = 2
    /\ timer.remaining = 0
    /\ timer.state = RESTING
    /\ timer.cycle = 3

\* C37: in every reachable state an interval is set exactly when the state
\* is WORKING or RESTING, no more than one interval is set and not cleared,
\* and TICK and COMPLETE are emitted only by the interval of a timer that
\* was WORKING or RESTING, never by a call made on a PAUSED or IDLE timer.
TimerInterval ==
    /\ timerId.active <=> timer.state \in {WORKING, RESTING}
    /\ timerId.live = IF timerId.active THEN 1 ELSE 0
    /\ \A i \in 1..Len(timerOutcome.events) :
          timerOutcome.events[i].event \in {TICK, COMPLETE}
             => /\ timerOutcome.op = "tick"
                /\ timerOutcome.before.state \in {WORKING, RESTING}

\* startWork was called on a WORKING timer whose interval had ticked: one
\* interval is set.
TimerIntervalWitness ==
    /\ timerOutcome.op = "startWork"
    /\ timerOutcome.before.state = WORKING
    /\ timerOutcome.before.elapsed > 0
    /\ timerId.active
    /\ timerId.live = 1

\* The ids of the entries of progressData.projects, in order.
ProjectListIds ==
    [i \in 1..Len(progressData.projects) |-> progressData.projects[i].projectId]

\* C35: once the storage holds data, handed over by setProgressData and
\* changed by the addProject and updateProject calls of the commands that
\* follow, every id of projectIds is resolved by getProjectById to one
\* project, every milestone of that project by getMilestoneById to that
\* milestone and every task of such a milestone by getTaskById to that task;
\* projectIds and the projects list hold the same ids, each exactly once.
IndexConsistent ==
    ~progressData.isNull
       => /\ \A i \in 1..Len(progressData.projectIds) :
                LET found == getProjectById(progressData.projectIds[i])
                IN /\ Cardinality(found) = 1
                   /\ \A p \in found :
                         \A j \in 1..Len(p.milestones) :
                            /\ getMilestoneById(p.milestones[j].milestoneId)
                                  = {p.milestones[j]}
                            /\ \A k \in 1..Len(p.milestones[j].tasks) :
                                  getTaskById(p.milestones[j].tasks[k].taskId)
                                     = {p.milestones[j].tasks[k]}
          /\ {progressData.projectIds[i] : i \in 1..Len(progressData.projectIds)}
                = {ProjectListIds[i] : i \in 1..Len(ProjectListIds)}
          /\ \A i, j \in 1..Len(progressData.projectIds) :
                progressData.projectIds[i] = progressData.projectIds[j] => i = j
          /\ \A i, j \in 1..Len(ProjectListIds) :
                ProjectListIds[i] = ProjectListIds[j] => i = j

\* What the step has emitted: the events appended to the emitter's record.
NewlyEmitted == SubSeq(emitted', Len(emitted) + 1, Len(emitted'))

\* C32: an updateTaskStatus that has found and updated its task emits, in
\* this order, the one event of the task, the event or events of its
\* milestone and the event of its project, the milestone status being
\* assigned before the project status.
CascadeOrder ==
    [][outcome'.op = "updateTaskStatus" /\ NewlyEmitted # <<>>
          => /\ Len(NewlyEmitted) >= 3
             /\ NewlyEmitted[1].type \in TaskStatusTypes
             /\ NewlyEmitted[1].id = outcome'.args[3]
             /\ \A i \in 2..(Len(NewlyEmitted) - 1) :
                   /\ NewlyEmitted[i].type \in {MILESTONE_UPDATED, MILESTONE_COMPLETED}
                   /\ NewlyEmitted[i].id = outcome'.args[2]
             /\ NewlyEmitted[Len(NewlyEmitted)].type = PROJECT_UPDATED
             /\ NewlyEmitted[Len(NewlyEmitted)].id = outcome'.args[1]
             /\ [i \in 1..Len(outcome'.wrote) |-> outcome'.wrote[i].level]
                   = <<"milestone", "project">>]_vars

\* C39: once every save that the commands have started has completed, none
\* of them having failed, the progress file holds the progress data as it is
\* in memory, whatever the order in which the overlapping saves completed.
SnapshotNotOlder ==
    (saving = <<>> /\ saveErrors = 0 /\ progressFile.exists)
       => progressFile.text = JSONstringifyProgress(progressData)

\* The filter of a read: the condition its method tests on an event.
Matches(req, e) ==
    CASE req.op = "getAllEvents" -> TRUE
      [] req.op = "getEventById" -> e.id = req.key
      [] req.op = "getEventsByEntityId" -> ReferencesEntity(e, req.key)
      [] req.op = "getEventsByTimeRange" -> req.lo <= e.timestamp /\ e.timestamp <= req.hi
      [] req.op = "getEventsByType" -> e.type = req.key

\* What a read is to return from the log: the events that match its filter,
\* in append order; for getEventById the first of them alone.
Expected(req, log) ==
    LET hits == SelectSeq(log, LAMBDA e : Matches(req, e))
    IN IF req.op = "getEventById" /\ hits # <<>> THEN <<Head(hits)>> ELSE hits

\* C38: with no file operation failing and no caller changing what a read
\* gave it, every read of a FileEventStore that started on an empty
\* directory returns what the same read of an InMemoryEventStore returned
\* after the same saveEvent, saveEvents and clear calls: the events saved
\* since the last clear that match the read's filter (time bounds
\* inclusive), in append order.
StoreEquivalence ==
    [][(/\ AfterInit(1)
        /\ calls[1].op \in ReadOps
        /\ hist.startEmpty
        /\ Untampered(events)
        /\ Untampered(memEvents)
        /\ memRet.pristine)
          => /\ ret'.op = memRet.op
             /\ ret'.isArray = memRet.isArray
             /\ ret'.vals = memRet.vals
             /\ ret'.vals = Expected(calls[1], acked)]_vars

\* After a clear and two saves, a filtered read has returned, from both
\* stores, one event of the two the log holds.
StoreEquivalenceWitness ==
    /\ hist.startEmpty
    /\ hist.cleared
    /\ ret.op \in {"getEventsByType", "getEventsByEntityId", "getEventsByTimeRange"}
    /\ ret.pristine
    /\ memRet.pristine
    /\ Len(ret.vals) = 1
    /\ Len(ret.seen) = 2
    /\ ret.vals = memRet.vals
    /\ ret.op = memRet.op

RECURSIVE MergedKeyByKey(_, _)
\* The target overridden by the source key by key: a key whose source value
\* is undefined keeps the target's value, two objects are merged field by
\* field, and any other source value, an array included, replaces the
\* target's.
MergedKeyByKey(target, source) ==
    LET Given(k) == k \in DOMAIN source /\ source[k].type # "undefined"
    IN [k \in DOMAIN target \cup {key \in DOMAIN source : Given(key)} |->
           IF ~Given(k) THEN target[k]
           ELSE IF /\ source[k].type = "object"
                   /\ k \in DOMAIN target
                   /\ target[k].type = "object"
                THEN Obj(MergedKeyByKey(target[k].fields, source[k].fields))
                ELSE source[k]]

\* C31: mergeConfig(target, source) returns the target overridden by the
\* source key by key, a key whose source value is undefined being skipped,
\* nested objects merged field by field and arrays replaced as a whole.
MergeKeyByKey ==
    merged # NoMerge
       => /\ merged.result = MergedKeyByKey(merged.target, merged.source)
          /\ merged.deep = MergedKeyByKey(merged.target, merged.source)

====
